---- MODULE Spec2Model ----
(***************************************************************************)
(* glox: a tree-walking interpreter for Lox.                               *)
(*                                                                         *)
(* The model follows the Go sources: the static Resolver, the evaluator    *)
(* (Interpreter.execute), the environment chain (Env) and the callable     *)
(* value model (LoxFunction, LoxClass, LoxInstance).  The recursive Go     *)
(* functions are RECURSIVE operators that thread the interpreter and its   *)
(* heap as a record; a Go panic is a signal carried by the result record   *)
(* ("err" = runtimeError, "ret" = returnValue, "crash" = any other panic)  *)
(* and a defer is the state change applied on every signal.                *)
(***************************************************************************)
EXTENDS Integers, Sequences, FiniteSets, TLC

VARIABLES
    prog,      \* []Stmt handed to Interpret
    pc,        \* position inside Interpret: "resolve", "eval", "done", "crashed", "outside"
    k,         \* index of the next top-level statement of the running loop
    rslv,      \* the Resolver built by Interpret
    interp,    \* the Interpreter together with the heap it points into
    err,       \* the error returned by Interpret ("" is nil)
    fin,       \* input of the function-level specifications
    fout       \* output of the function-level specifications

vars == <<prog, pc, k, rslv, interp, err, fin, fout>>

(***************************************************************************)
(* Bounds of the explored inputs.                                          *)
(***************************************************************************)
MaxNest == 2
MaxArg == 2
MaxScopes == 3
MaxChain == 3

(***************************************************************************)
(* Runtime values.  Go's `any` holding nil, bool, float64, string, int64,  *)
(* *LoxFunction, *LoxClass, *LoxInstance or *builtinClock.  t is the       *)
(* dynamic type, n the number or the heap index, s the string.  A finite   *)
(* float64 is n / 2^e, with n odd when e > 0; s names the float64 values   *)
(* that are no such quotient: "-0", "+Inf", "-Inf", "NaN".                 *)
(***************************************************************************)
Nil == [t |-> "nil", n |-> 0, e |-> 0, s |-> ""]
Bool(b) == [t |-> "bool", n |-> IF b THEN 1 ELSE 0, e |-> 0, s |-> ""]
Num(x) == [t |-> "float64", n |-> x, e |-> 0, s |-> ""]
Int64(x) == [t |-> "int64", n |-> x, e |-> 0, s |-> ""]
Str(x) == [t |-> "string", n |-> 0, e |-> 0, s |-> x]
FnRef(id) == [t |-> "LoxFunction", n |-> id, e |-> 0, s |-> ""]
ClassRef(id) == [t |-> "LoxClass", n |-> id, e |-> 0, s |-> ""]
InstRef(id) == [t |-> "LoxInstance", n |-> id, e |-> 0, s |-> ""]
ClockRef == [t |-> "builtinClock", n |-> 0, e |-> 0, s |-> ""]

\* A nil Expr / Stmt / pointer.
NoNode == [kind |-> "nil"]
NilPtr == 0

(***************************************************************************)
(* float64.  The values held exactly are the quotients n / 2^e whose       *)
(* decimal expansion n * 5^e / 10^e has a numerator of at most             *)
(* MaxMagnitude, the two zeros, the two infinities and NaN; on them the    *)
(* operators below give the IEEE 754 result.  A result that is no such     *)
(* value (a quotient that needs rounding, a larger magnitude) is NoFloat.  *)
(***************************************************************************)
MaxMagnitude == 1000000000
MaxExp == 12

Special(s) == [t |-> "float64", n |-> 0, e |-> 0, s |-> s]
NegZero == Special("-0")
PosInf == Special("+Inf")
NegInf == Special("-Inf")
NaN == Special("NaN")
NoFloat == [t |-> "outside", n |-> 0, e |-> 0, s |-> ""]

Abs(x) == IF x < 0 THEN 0 - x ELSE x
RECURSIVE Pow(_, _)
Pow(b, x) == IF x <= 0 THEN 1 ELSE b * Pow(b, x - 1)

IsNaN(a) == a.s = "NaN"
IsInf(a) == a.s \in {"+Inf", "-Inf"}
IsZero(a) == a.s = "-0" \/ (a.s = "" /\ a.n = 0)
IsFinite(a) == a.s \in {"", "-0"}
\* math.Signbit
Signbit(a) == a.s \in {"-0", "-Inf"} \/ (a.s = "" /\ a.n < 0)
Zero(neg) == IF neg THEN NegZero ELSE Num(0)
Inf(neg) == IF neg THEN NegInf ELSE PosInf

\* a * b when its magnitude is at most MaxMagnitude, else -1; a, b >= 0.
Times(a, b) == IF a = 0 \/ b = 0 THEN 0
               ELSE IF a > MaxMagnitude \div b THEN -1 ELSE a * b

\* The float64 n / 2^e in lowest terms (n # 0).
RECURSIVE Reduced(_, _)
Reduced(n, e) ==
    IF e > 0 /\ n % 2 = 0 THEN Reduced(n \div 2, e - 1)
    ELSE IF e > MaxExp \/ Abs(n) > MaxMagnitude \div Pow(5, e) THEN NoFloat
    ELSE [t |-> "float64", n |-> n, e |-> e, s |-> ""]

\* The float64 of magnitude m / 2^e and the given sign; m = -1 stands for a
\* magnitude above MaxMagnitude.
Signed(neg, m, e) ==
    IF m < 0 THEN NoFloat
    ELSE IF m = 0 THEN Zero(neg)
    ELSE Reduced(IF neg THEN 0 - m ELSE m, e)

\* -a
FNeg(a) ==
    CASE IsNaN(a) -> NaN
      [] IsInf(a) -> Inf(~Signbit(a))
      [] IsZero(a) -> Zero(~Signbit(a))
      [] OTHER -> [a EXCEPT !.n = 0 - a.n]

\* a + b for finite non-zero a and b; x and y are the magnitudes of the
\* numerators brought to the exponent e, the larger of the two.
FAddScaled(a, b, x, y, e) ==
    IF x < 0 \/ y < 0 THEN NoFloat
    ELSE IF (IF a.n < 0 THEN 0 - x ELSE x) + (IF b.n < 0 THEN 0 - y ELSE y) = 0 THEN Num(0)
    ELSE IF Abs((IF a.n < 0 THEN 0 - x ELSE x) + (IF b.n < 0 THEN 0 - y ELSE y)) > MaxMagnitude
    THEN NoFloat
    ELSE Reduced((IF a.n < 0 THEN 0 - x ELSE x) + (IF b.n < 0 THEN 0 - y ELSE y), e)

\* a + b
FAdd(a, b) ==
    CASE IsNaN(a) \/ IsNaN(b) -> NaN
      [] IsInf(a) /\ IsInf(b) -> IF a = b THEN a ELSE NaN
      [] IsInf(a) -> a
      [] IsInf(b) -> b
      [] IsZero(a) /\ IsZero(b) -> Zero(Signbit(a) /\ Signbit(b))
      [] IsZero(a) -> b
      [] IsZero(b) -> a
      [] OTHER ->
            FAddScaled(a, b,
                       Times(Abs(a.n), Pow(2, (IF a.e > b.e THEN a.e ELSE b.e) - a.e)),
                       Times(Abs(b.n), Pow(2, (IF a.e > b.e THEN a.e ELSE b.e) - b.e)),
                       IF a.e > b.e THEN a.e ELSE b.e)

\* a - b
FSub(a, b) == FAdd(a, FNeg(b))

\* a * b
FMul(a, b) ==
    CASE IsNaN(a) \/ IsNaN(b) -> NaN
      [] (IsInf(a) /\ IsZero(b)) \/ (IsZero(a) /\ IsInf(b)) -> NaN
      [] IsInf(a) \/ IsInf(b) -> Inf(Signbit(a) # Signbit(b))
      [] IsZero(a) \/ IsZero(b) -> Zero(Signbit(a) # Signbit(b))
      [] OTHER -> Signed(Signbit(a) # Signbit(b), Times(Abs(a.n), Abs(b.n)), a.e + b.e)

\* The largest k with 2^k dividing m (m > 0).
RECURSIVE TwoPower(_)
TwoPower(m) == IF m % 2 = 0 THEN 1 + TwoPower(m \div 2) ELSE 0

\* a / b for finite non-zero a and b: exact when the odd part of b's
\* numerator divides a's numerator; x is a.e + TwoPower(|b.n|) - b.e.
FDivFinite(a, b, odd, x) ==
    IF Abs(a.n) % odd # 0 THEN NoFloat
    ELSE IF x >= 0 THEN Signed(Signbit(a) # Signbit(b), Abs(a.n) \div odd, x)
    ELSE Signed(Signbit(a) # Signbit(b), Times(Abs(a.n) \div odd, Pow(2, 0 - x)), 0)

\* a / b
FDiv(a, b) ==
    CASE IsNaN(a) \/ IsNaN(b) -> NaN
      [] (IsInf(a) /\ IsInf(b)) \/ (IsZero(a) /\ IsZero(b)) -> NaN
      [] IsInf(a) \/ IsZero(b) -> Inf(Signbit(a) # Signbit(b))
      [] IsInf(b) \/ IsZero(a) -> Zero(Signbit(a) # Signbit(b))
      [] OTHER -> FDivFinite(a, b, Abs(b.n) \div Pow(2, TwoPower(Abs(b.n))),
                             a.e + TwoPower(Abs(b.n)) - b.e)

\* a < b for finite a and b: by the integral parts, then by the fractions.
FLessFinite(a, b) ==
    IF a.n \div Pow(2, a.e) # b.n \div Pow(2, b.e)
    THEN a.n \div Pow(2, a.e) < b.n \div Pow(2, b.e)
    ELSE (a.n % Pow(2, a.e)) * Pow(2, MaxExp - a.e)
            < (b.n % Pow(2, b.e)) * Pow(2, MaxExp - b.e)

\* a < b
FLess(a, b) ==
    CASE IsNaN(a) \/ IsNaN(b) -> FALSE
      [] a.s = "+Inf" \/ b.s = "-Inf" -> FALSE
      [] a.s = "-Inf" \/ b.s = "+Inf" -> TRUE
      [] OTHER -> FLessFinite(a, b)

\* a == b
FEq(a, b) ==
    CASE IsNaN(a) \/ IsNaN(b) -> FALSE
      [] IsZero(a) /\ IsZero(b) -> TRUE
      [] OTHER -> a = b

\* The decimal digits d without their trailing zeros.
RECURSIVE Stripped(_)
Stripped(d) ==
    IF Len(d) > 1 /\ SubSeq(d, Len(d), Len(d)) = "0" THEN Stripped(SubSeq(d, 1, Len(d) - 1))
    ELSE d

\* x zeros.
RECURSIVE Zeros(_)
Zeros(x) == IF x <= 0 THEN "" ELSE "0" \o Zeros(x - 1)

\* strconv's %e with the shortest digits d: d.ddde+XX
FmtE(d, exp) ==
    SubSeq(d, 1, 1) \o (IF Len(d) > 1 THEN "." \o SubSeq(d, 2, Len(d)) ELSE "")
    \o (IF exp < 0 THEN "e-" ELSE "e+")
    \o (IF Abs(exp) < 10 THEN "0" ELSE "") \o ToString(Abs(exp))

\* strconv's %f with the digits d and the decimal point after dp of them.
FmtF(d, dp) ==
    IF dp <= 0 THEN "0." \o Zeros(0 - dp) \o d
    ELSE IF Len(d) <= dp THEN d \o Zeros(dp - Len(d))
    ELSE SubSeq(d, 1, dp) \o "." \o SubSeq(d, dp + 1, Len(d))

\* strconv.FormatFloat(f, 'g', -1, 64) of a positive finite value with the
\* digits all (of n * 5^e) and e decimals: %e when the decimal exponent is
\* below -4 or at least 6.
FmtG(all, e) ==
    IF Len(all) - e - 1 < -4 \/ Len(all) - e - 1 >= 6
    THEN FmtE(Stripped(all), Len(all) - e - 1)
    ELSE FmtF(Stripped(all), Len(all) - e)

\* fmt's %v of a float64
FormatFloat(a) ==
    CASE a.s # "" -> a.s
      [] a.n = 0 -> "0"
      [] OTHER -> (IF a.n < 0 THEN "-" ELSE "") \o FmtG(ToString(Abs(a.n) * Pow(5, a.e)), a.e)

\* The value of the decimal digits d, -1 when above MaxMagnitude (-2 when d
\* holds another byte than a digit).
DigitOf(c) == IF \E x \in 0..9 : ToString(x) = c THEN CHOOSE x \in 0..9 : ToString(x) = c
              ELSE -2
RECURSIVE Decimal(_, _)
Decimal(d, acc) ==
    IF d = "" \/ acc < 0 THEN acc
    ELSE IF DigitOf(Head(d)) < 0 THEN -2
    ELSE IF Times(acc, 10) < 0 \/ Times(acc, 10) + DigitOf(Head(d)) > MaxMagnitude THEN -1
    ELSE Decimal(Tail(d), acc * 10 + DigitOf(Head(d)))

\* The position of the first '.' of lit, Len(lit) + 1 without one.
RECURSIVE DotAt(_, _)
DotAt(lit, j) ==
    IF j > Len(lit) \/ SubSeq(lit, j, j) = "." THEN j ELSE DotAt(lit, j + 1)

\* m / 10^x as a float64 (m >= 0, or one of the marks of Decimal): exact
\* when 5^x divides m.
ParseDecimal(m, x) ==
    IF m < 0 \/ x > MaxExp THEN NoFloat
    ELSE IF m % Pow(5, x) # 0 THEN NoFloat
    ELSE Signed(FALSE, m \div Pow(5, x), x)

\* The decimal digits d without their trailing zeros, possibly none left.
RECURSIVE Significant(_)
Significant(d) ==
    IF d # "" /\ SubSeq(d, Len(d), Len(d)) = "0" THEN Significant(SubSeq(d, 1, Len(d) - 1))
    ELSE d

\* m * 10^x as a float64 (m > 0, x >= 0).
RECURSIVE ScaleUp(_, _)
ScaleUp(m, x) ==
    IF x = 0 THEN Num(m)
    ELSE IF Times(m, 10) < 0 THEN NoFloat
    ELSE ScaleUp(m * 10, x - 1)

\* The float64 of the decimal digits with value m (or a mark of Decimal)
\* times 10^x.
Scaled(m, x) ==
    IF m = 0 THEN Num(0)
    ELSE IF m < 0 THEN NoFloat
    ELSE IF x >= 0 THEN ScaleUp(m, x)
    ELSE ParseDecimal(m, 0 - x)

\* The literal is no number: ParseFloat returns 0 and ErrSyntax.
SyntaxError == [t |-> "syntax", n |-> 0, e |-> 0, s |-> ""]

\* d holds decimal digits only, possibly none.
AllDigits(d) == \A j \in 1..Len(d) : DigitOf(SubSeq(d, j, j)) >= 0

\* The mantissa of integral digits ip and fraction digits fp (one of the two
\* may be empty) times 10^x.
ParseDigits(ip, fp, x) ==
    IF ~AllDigits(ip) \/ ~AllDigits(fp) \/ (ip = "" /\ fp = "") THEN SyntaxError
    ELSE Scaled(Decimal(ip \o Significant(fp), 0), x - Len(Significant(fp)))

ParseMantissa(mt, x) ==
    ParseDigits(SubSeq(mt, 1, DotAt(mt, 1) - 1), SubSeq(mt, DotAt(mt, 1) + 1, Len(mt)), x)

\* The position of the first 'e' or 'E' of lit, Len(lit) + 1 without one.
RECURSIVE ExpAt(_, _)
ExpAt(lit, j) ==
    IF j > Len(lit) \/ SubSeq(lit, j, j) \in {"e", "E"} THEN j ELSE ExpAt(lit, j + 1)

\* The value of the exponent digits d, MaxMagnitude for a larger one.
ExpValue(d) == IF Decimal(d, 0) < 0 THEN MaxMagnitude ELSE Decimal(d, 0)

\* The decimal exponent xt: an optional sign and at least one digit.
ParseExponent(mt, xt) ==
    IF xt # "" /\ Head(xt) \in {"+", "-"} /\ Len(xt) > 1 /\ AllDigits(Tail(xt))
    THEN ParseMantissa(mt, IF Head(xt) = "-" THEN 0 - ExpValue(Tail(xt))
                                             ELSE ExpValue(Tail(xt)))
    ELSE IF xt # "" /\ AllDigits(xt) THEN ParseMantissa(mt, ExpValue(xt))
    ELSE SyntaxError

\* lit is word in letters of any case; upper is word in capitals.
EqualFold(lit, word, upper) ==
    /\ Len(lit) = Len(word)
    /\ \A j \in 1..Len(lit) : SubSeq(lit, j, j) \in {SubSeq(word, j, j), SubSeq(upper, j, j)}

\* A literal with an underscore or the prefix 0x: the syntax of Go's
\* hexadecimal and separated literals is not decided here.
Undecided(lit) ==
    \/ \E j \in 1..Len(lit) : SubSeq(lit, j, j) = "_"
    \/ Len(lit) >= 2 /\ SubSeq(lit, 1, 2) \in {"0x", "0X"}

\* The literal after its sign.
ParseUnsigned(lit, signed) ==
    IF lit = "" THEN SyntaxError
    ELSE IF Undecided(lit) THEN NoFloat
    ELSE IF EqualFold(lit, "inf", "INF") \/ EqualFold(lit, "infinity", "INFINITY") THEN PosInf
    ELSE IF EqualFold(lit, "nan", "NAN") THEN (IF signed THEN SyntaxError ELSE NaN)
    ELSE IF ExpAt(lit, 1) > Len(lit) THEN ParseMantissa(lit, 0)
    ELSE ParseExponent(SubSeq(lit, 1, ExpAt(lit, 1) - 1),
                       SubSeq(lit, ExpAt(lit, 1) + 1, Len(lit)))

\* f, _ := strconv.ParseFloat(lit, 64): on ErrSyntax f is 0.
ParseSigned(neg, f) ==
    IF f.t = "syntax" THEN Num(0)
    ELSE IF f.t = "outside" THEN f
    ELSE IF neg THEN FNeg(f) ELSE f

\* strconv.ParseFloat(lit, 64) with its error dropped: an optional sign,
\* then inf, infinity or (unsigned) nan in any case, or decimal digits with
\* an optional fraction and an optional decimal exponent.
ParseFloat(lit) ==
    IF lit # "" /\ Head(lit) \in {"+", "-"}
    THEN ParseSigned(Head(lit) = "-", ParseUnsigned(Tail(lit), TRUE))
    ELSE ParseSigned(FALSE, ParseUnsigned(lit, FALSE))

(***************************************************************************)
(* The verbs of the error messages.                                        *)
(***************************************************************************)
\* %T of a value
TypeName(v) ==
    CASE v.t = "nil" -> "<nil>"
      [] v.t \in {"bool", "float64", "string", "int64"} -> v.t
      [] OTHER -> "*glox." \o v.t

\* %q of a string without quotes, backslashes or control bytes
Quote(str) == "\"" \o str \o "\""

\* Token.Literal of an operator token: the bytes Scan made the token of.
Lexeme(kind) ==
    CASE kind = "PLUS" -> "+" [] kind = "DASH" -> "-" [] kind = "STAR" -> "*"
      [] kind = "SLASH" -> "/" [] kind = "BANG" -> "!" [] kind = "BANG_EQUAL" -> "!="
      [] kind = "EQUAL" -> "=" [] kind = "EQUAL_EQUAL" -> "=="
      [] kind = "GREATER" -> ">" [] kind = "GREATER_EQUAL" -> ">="
      [] kind = "LESS" -> "<" [] kind = "LESS_EQUAL" -> "<="
      [] kind = "PAREN_LEFT" -> "(" [] kind = "PAREN_RIGHT" -> ")"
      [] kind = "BRACE_LEFT" -> "{" [] kind = "BRACE_RIGHT" -> "}"
      [] kind = "COMMA" -> "," [] kind = "DOT" -> "." [] kind = "SEMICOLON" -> ";"
      [] kind = "AND" -> "and" [] kind = "CLASS" -> "class" [] kind = "ELSE" -> "else"
      [] kind = "FALSE" -> "false" [] kind = "FUN" -> "fun" [] kind = "FOR" -> "for"
      [] kind = "IF" -> "if" [] kind = "NIL" -> "nil" [] kind = "OR" -> "or"
      [] kind = "PRINT" -> "print" [] kind = "RETURN" -> "return"
      [] kind = "SUPER" -> "super" [] kind = "THIS" -> "this" [] kind = "TRUE" -> "true"
      [] kind = "VAR" -> "var" [] kind = "WHILE" -> "while"
      [] OTHER -> ""

(***************************************************************************)
(* AST nodes.  id is the identity of an expression node (the pointer used  *)
(* as key of Interpreter.locals).                                          *)
(***************************************************************************)
Literal(v) == [kind |-> "Literal", val |-> v]
Grouping(e) == [kind |-> "Grouping", group |-> e]
BinaryExpr(op, l, r) == [kind |-> "BinaryExpr", op |-> op, left |-> l, right |-> r]
LogicalExpr(op, l, r) == [kind |-> "LogicalExpr", op |-> op, left |-> l, right |-> r]
UnaryExpr(op, r) == [kind |-> "UnaryExpr", op |-> op, right |-> r]
Variable(id, name) == [kind |-> "Variable", id |-> id, name |-> name]
Assign(id, name, val) == [kind |-> "Assign", id |-> id, name |-> name, val |-> val]
Call(callee, args) == [kind |-> "Call", callee |-> callee, args |-> args]
GetExpr(obj, name) == [kind |-> "GetExpr", object |-> obj, name |-> name]
SetExpr(obj, name, val) == [kind |-> "SetExpr", object |-> obj, name |-> name, value |-> val]
ThisExpr(id) == [kind |-> "ThisExpr", id |-> id, name |-> "this"]
SuperExpr(id, method) == [kind |-> "SuperExpr", id |-> id, name |-> "super", method |-> method]

PrintStmt(e) == [kind |-> "PrintStmt", expr |-> e]
ExprStmt(e) == [kind |-> "ExprStmt", expr |-> e]
VarStmt(name, init) == [kind |-> "VarStmt", name |-> name, init |-> init]
BlockStmt(stmts) == [kind |-> "BlockStmt", statements |-> stmts]
IfStmt(c, t, e) == [kind |-> "IfStmt", cond |-> c, thenBranch |-> t, elseBranch |-> e]
WhileStmt(c, b) == [kind |-> "WhileStmt", cond |-> c, body |-> b]
ReturnStmt(v) == [kind |-> "ReturnStmt", value |-> v]
ClassStmt(name, super, methods) ==
    [kind |-> "ClassStmt", name |-> name, super |-> super, methods |-> methods]
FuncStmt(name, params, body) ==
    [kind |-> "FuncStmt", name |-> name, params |-> params, body |-> body]

\* Parser.parseFuncStmt: the braces of a function are parsed as one
\* BlockStmt, which becomes the only statement of FuncStmt.body.
parseFuncStmt(name, params, stmts) == FuncStmt(name, params, <<BlockStmt(stmts)>>)

\* Parser.parseForStmt: the statement built from the clauses of a for
\* statement; a skipped initializer, condition or incrementor is NoNode.
parseForStmt(init, condition, incr, stmt) ==
    LET cond == IF condition.kind # "nil" THEN condition ELSE Literal(Bool(TRUE))
        body1 == IF incr.kind # "nil" THEN BlockStmt(<<stmt, ExprStmt(incr)>>) ELSE stmt
        body2 == WhileStmt(cond, body1)
        body3 == IF init.kind # "nil" THEN BlockStmt(<<init, body2>>) ELSE body2
    IN WhileStmt(cond, body3)

(***************************************************************************)
(* Scanner.  A source is a list of bytes (ASCII codes); s is the Scanner:  *)
(* src, at (the position of the next byte to read, from 1) and line.       *)
(***************************************************************************)
isDigit(b) == 48 <= b /\ b <= 57
isAlpha(b) == (97 <= b /\ b <= 122) \/ (65 <= b /\ b < 90) \/ b = 95
isAlphaNumeric(b) == isDigit(b) \/ isAlpha(b)

\* The map keywords, its keys as bytes.
keywords ==
    ( <<97, 110, 100>> :> "AND" ) @@ ( <<99, 108, 97, 115, 115>> :> "CLASS" )
    @@ ( <<101, 108, 115, 101>> :> "ELSE" ) @@ ( <<102, 97, 108, 115, 101>> :> "FALSE" )
    @@ ( <<102, 117, 110>> :> "FUN" ) @@ ( <<102, 111, 114>> :> "FOR" )
    @@ ( <<105, 102>> :> "IF" ) @@ ( <<110, 105, 108>> :> "NIL" )
    @@ ( <<111, 114>> :> "OR" ) @@ ( <<112, 114, 105, 110, 116>> :> "PRINT" )
    @@ ( <<114, 101, 116, 117, 114, 110>> :> "RETURN" )
    @@ ( <<115, 117, 112, 101, 114>> :> "SUPER" ) @@ ( <<116, 104, 105, 115>> :> "THIS" )
    @@ ( <<116, 114, 117, 101>> :> "TRUE" ) @@ ( <<118, 97, 114>> :> "VAR" )
    @@ ( <<119, 104, 105, 108, 101>> :> "WHILE" )

NewScanner(src) == [src |-> src, at |-> 1, line |-> 1]
finished(s) == s.at > Len(s.src)
peek(s) == IF finished(s) THEN 0 ELSE s.src[s.at]
peekpeek(s) == IF s.at + 1 > Len(s.src) THEN 0 ELSE s.src[s.at + 1]
skip(s) ==
    IF finished(s) THEN s
    ELSE [s EXCEPT !.at = @ + 1, !.line = IF s.src[s.at] = 10 THEN @ + 1 ELSE @]
\* Scanner.consume(b): the scanner after it; b was consumed when at moved.
consumeByte(s, b) == IF peek(s) # b THEN s ELSE skip(s)

\* The loops of Scan: skip while the next byte is of the class.
RECURSIVE skipWhitespace(_), skipDigits(_), skipAlphaNumeric(_), skipUntil(_, _)
skipWhitespace(s) == IF peek(s) \in {32, 10, 13, 9} THEN skipWhitespace(skip(s)) ELSE s
skipDigits(s) == IF isDigit(peek(s)) THEN skipDigits(skip(s)) ELSE s
skipAlphaNumeric(s) == IF isAlphaNumeric(peek(s)) THEN skipAlphaNumeric(skip(s)) ELSE s
skipUntil(s, b) == IF peek(s) # b /\ ~finished(s) THEN skipUntil(skip(s), b) ELSE s

\* The token Scan returns and the scanner after it.
Scanned(s, start, line, kind) ==
    [s |-> s, tok |-> [Kind |-> kind, Line |-> line,
                       Literal |-> SubSeq(s.src, start, s.at - 1)]]

\* case isDigit(b)
scanNumber(s, start, line) ==
    IF peek(s) = 46 /\ isDigit(peekpeek(s))
    THEN Scanned(skipDigits(skip(s)), start, line, "NUMBER")
    ELSE Scanned(s, start, line, "NUMBER")

\* case isAlpha(b)
scanIdentifier(s, start, line) ==
    Scanned(s, start, line,
            IF SubSeq(s.src, start, s.at - 1) \in DOMAIN keywords
            THEN keywords[SubSeq(s.src, start, s.at - 1)] ELSE "IDENTIFIER")

\* One of two kinds, by whether the byte b follows.
scanTwo(s, start, line, b, with, without) ==
    Scanned(consumeByte(s, b), start, line, IF peek(s) = b THEN with ELSE without)

\* case '"'
scanString(s, start, line) ==
    IF finished(s) THEN Scanned(s, start, line, "ILLEGAL")
    ELSE Scanned(skip(s), start, line, "STRING")

\* Scanner.Scan after the whitespace; s is the scanner before advance().
scanToken(s, b, s1) ==
    CASE isDigit(b) -> scanNumber(skipDigits(s1), s.at, s.line)
      [] ~isDigit(b) /\ isAlpha(b) -> scanIdentifier(skipAlphaNumeric(s1), s.at, s.line)
      [] OTHER ->
         CASE b = 40 -> Scanned(s1, s.at, s.line, "PAREN_LEFT")
           [] b = 41 -> Scanned(s1, s.at, s.line, "PAREN_RIGHT")
           [] b = 123 -> Scanned(s1, s.at, s.line, "BRACE_LEFT")
           [] b = 125 -> Scanned(s1, s.at, s.line, "BRACE_RIGHT")
           [] b = 44 -> Scanned(s1, s.at, s.line, "COMMA")
           [] b = 46 -> Scanned(s1, s.at, s.line, "DOT")
           [] b = 45 -> Scanned(s1, s.at, s.line, "DASH")
           [] b = 43 -> Scanned(s1, s.at, s.line, "PLUS")
           [] b = 59 -> Scanned(s1, s.at, s.line, "SEMICOLON")
           [] b = 42 -> Scanned(s1, s.at, s.line, "STAR")
           [] b = 33 -> scanTwo(s1, s.at, s.line, 61, "BANG_EQUAL", "BANG")
           [] b = 61 -> scanTwo(s1, s.at, s.line, 61, "EQUAL_EQUAL", "EQUAL")
           [] b = 60 -> scanTwo(s1, s.at, s.line, 61, "LESS_EQUAL", "LESS")
           [] b = 62 -> scanTwo(s1, s.at, s.line, 61, "GREATER_EQUAL", "GREATER")
           [] b = 47 -> IF peek(s1) = 47
                        THEN Scanned(skipUntil(skip(s1), 10), s.at, s.line, "COMMENT")
                        ELSE Scanned(s1, s.at, s.line, "SLASH")
           [] b = 34 -> scanString(skipUntil(s1, 34), s.at, s.line)
           [] OTHER -> Scanned(s1, s.at, s.line, "ILLEGAL")

\* Scanner.Scan
Scan_at(s) ==
    IF finished(s) THEN [s |-> s, tok |-> [Kind |-> "EOF", Line |-> s.line, Literal |-> <<>>]]
    ELSE scanToken(s, s.src[s.at], skip(s))

Scan(s) == Scan_at(skipWhitespace(s))

(***************************************************************************)
(* Parser.  ts is Parser.tokens (a list ending with EOF), cur is           *)
(* Parser.current + 1.  A parse function yields the position reached, the  *)
(* node built, and how it ended: sig is "ok", "parsingError" (a            *)
(* panic(parsingError{...}) raised by parseErrf) or "runtimeError" (a      *)
(* panic(runtimeError{...}) raised by runtimeErrf).  An expression node    *)
(* built from the token at position j has identity j.                      *)
(***************************************************************************)
\* A token of the first line of a source.
Token(kind, literal) == [Kind |-> kind, Line |-> 1, Literal |-> literal]
POk(cur, node) == [cur |-> cur, node |-> node, sig |-> "ok", err |-> ""]
parseErrf(cur, msg) == [cur |-> cur, node |-> NoNode, sig |-> "parsingError", err |-> msg]
\* Parser.error: the message of parseErrf names the line of the token at cur.
Parser_error(ts, cur, msg) ==
    parseErrf(cur, "error on line " \o ToString(ts[cur].Line) \o ": " \o msg)

\* Parser.peek().Kind, Parser.isAtEnd, Parser.check, Parser.match (which
\* never matches EOF), Parser.advance
Kind(ts, cur) == ts[cur].Kind
isAtEnd(ts, cur) == Kind(ts, cur) = "EOF"
check(ts, cur, tt) == Kind(ts, cur) = tt
match(ts, cur, tts) == Kind(ts, cur) # "EOF" /\ Kind(ts, cur) \in tts
advance(ts, cur) == IF isAtEnd(ts, cur) THEN cur ELSE cur + 1

\* Parser.consume: Parser.error panics before sync is reached.
consume(ts, cur, tt, msg) ==
    IF Kind(ts, cur) # tt THEN Parser_error(ts, cur, msg)
    ELSE POk(advance(ts, cur), NoNode)

\* The limit tested by parseFuncStmt and finishCall before each append.
ListLimit == 255

\* The operator kinds of the binary levels, loosest first: parseOr,
\* parseAnd, parseEquality, parseComparison, parseTerm, parseFactor.
BinaryLevels ==
    << {"OR"}, {"AND"}, {"BANG_EQUAL", "EQUAL_EQUAL"},
       {"GREATER", "GREATER_EQUAL", "LESS", "LESS_EQUAL"},
       {"PLUS", "DASH"}, {"STAR", "SLASH"} >>

RECURSIVE parseAssign(_, _), parseBinary(_, _, _), binaryLoop(_, _, _),
          parseUnary(_, _), parseCall(_, _), callLoop(_, _), finishCall(_, _, _),
          argsLoop(_, _, _), parsePrimary(_, _)

\* Parser.parseExpr
parseExpr(ts, cur) == parseAssign(ts, cur)

\* Parser.parseAssign after both sides are parsed: eq is the position of '='.
parseAssign_target(expr, eq, value) ==
    IF value.sig # "ok" THEN value
    ELSE IF expr.node.kind = "Variable"
    THEN POk(value.cur, Assign(eq, expr.node.name, value.node))
    ELSE [cur |-> value.cur, node |-> NoNode, sig |-> "runtimeError",
          err |-> "RUNTIME ERROR: Invalide assignment target *glox." \o expr.node.kind]

parseAssign_rest(ts, expr) ==
    IF expr.sig # "ok" THEN expr
    ELSE IF match(ts, expr.cur, {"EQUAL"})
    THEN parseAssign_target(expr, expr.cur, parseAssign(ts, expr.cur + 1))
    ELSE expr

parseAssign(ts, cur) == parseAssign_rest(ts, parseBinary(ts, cur, 1))

\* Parser.parseOr ... parseFactor: a left operand of the next level, then
\* while an operator of the level follows, a right operand of the next level.
binaryNode(lvl, op, left, right) ==
    IF lvl <= 2 THEN LogicalExpr(op, left, right) ELSE BinaryExpr(op, left, right)

binaryRight(ts, lvl, expr, op, right) ==
    IF right.sig # "ok" THEN right
    ELSE binaryLoop(ts, lvl, POk(right.cur, binaryNode(lvl, op, expr.node, right.node)))

binaryLoop(ts, lvl, expr) ==
    IF expr.sig # "ok" THEN expr
    ELSE IF match(ts, expr.cur, BinaryLevels[lvl])
    THEN binaryRight(ts, lvl, expr, Kind(ts, expr.cur),
                     parseBinary(ts, expr.cur + 1, lvl + 1))
    ELSE expr

parseBinary(ts, cur, lvl) ==
    IF lvl > Len(BinaryLevels) THEN parseUnary(ts, cur)
    ELSE binaryLoop(ts, lvl, parseBinary(ts, cur, lvl + 1))

\* Parser.parseUnary
parseUnary_node(op, right) ==
    IF right.sig # "ok" THEN right ELSE POk(right.cur, UnaryExpr(op, right.node))

parseUnary(ts, cur) ==
    IF match(ts, cur, {"DASH", "BANG"})
    THEN parseUnary_node(Kind(ts, cur), parseUnary(ts, cur + 1))
    ELSE parseCall(ts, cur)

\* Parser.finishCall: the argument loop tests the length before each
\* append; args holds the arguments parsed so far.
finishCall_paren(ts, callee, args) ==
    IF Kind(ts, args.cur) # "PAREN_RIGHT"
    THEN Parser_error(ts, args.cur, "Expected closing ')' after call args.")
    ELSE POk(advance(ts, args.cur), Call(callee, args.node))

\* One iteration of the argument loop: "again" when a ',' follows.
argsNext(args, arg, comma) ==
    IF arg.sig # "ok" THEN arg
    ELSE [cur |-> IF comma THEN arg.cur + 1 ELSE arg.cur, node |-> Append(args, arg.node),
          sig |-> IF comma THEN "again" ELSE "ok", err |-> ""]

argsNext_comma(ts, args, arg) ==
    argsNext(args, arg, arg.sig = "ok" /\ match(ts, arg.cur, {"COMMA"}))

argsStep(ts, cur, args) ==
    IF Len(args) > ListLimit THEN parseErrf(cur, "Can't have more than 255 arguments.")
    ELSE argsNext_comma(ts, args, parseAssign(ts, cur))

argsAgain(ts, r) == IF r.sig = "again" THEN argsLoop(ts, r.cur, r.node) ELSE r

argsLoop(ts, cur, args) == argsAgain(ts, argsStep(ts, cur, args))

finishCall_args(ts, callee, args) ==
    IF args.sig # "ok" THEN args ELSE finishCall_paren(ts, callee, args)

finishCall(ts, cur, callee) ==
    IF ~check(ts, cur, "PAREN_RIGHT")
    THEN finishCall_args(ts, callee, argsLoop(ts, cur, <<>>))
    ELSE finishCall_paren(ts, callee, POk(cur, <<>>))

\* Parser.parseCall
callLoop(ts, expr) ==
    IF expr.sig # "ok" THEN expr
    ELSE IF match(ts, expr.cur, {"PAREN_LEFT"})
    THEN callLoop(ts, finishCall(ts, expr.cur + 1, expr.node))
    ELSE expr

parseCall(ts, cur) == callLoop(ts, parsePrimary(ts, cur))

\* Parser.parsePrimary
parsePrimary_group(ts, expr) ==
    IF expr.sig # "ok" THEN expr
    ELSE IF Kind(ts, expr.cur) # "PAREN_RIGHT"
    THEN Parser_error(ts, expr.cur, "Expected closing ')'")
    ELSE POk(advance(ts, expr.cur), Grouping(expr.node))

\* f is the float64 of the NUMBER token at cur; a literal whose float64 is
\* no value of the model ends the run of the model there.
parsePrimary_number(cur, f) ==
    IF f.t = "outside"
    THEN [cur |-> cur, node |-> NoNode, sig |-> "outside",
          err |-> "float64 that needs rounding or is too large"]
    ELSE POk(cur + 1, Literal(f))

parsePrimary(ts, cur) ==
    CASE match(ts, cur, {"FALSE"}) -> POk(cur + 1, Literal(Bool(FALSE)))
      [] match(ts, cur, {"TRUE"}) -> POk(cur + 1, Literal(Bool(TRUE)))
      [] match(ts, cur, {"NIL"}) -> POk(cur + 1, Literal(Nil))
      [] match(ts, cur, {"STRING"}) -> POk(cur + 1, Literal(Str(ts[cur].Literal)))
      [] match(ts, cur, {"NUMBER"}) -> parsePrimary_number(cur, ParseFloat(ts[cur].Literal))
      [] match(ts, cur, {"PAREN_LEFT"}) -> parsePrimary_group(ts, parseAssign(ts, cur + 1))
      [] match(ts, cur, {"IDENTIFIER"}) -> POk(cur + 1, Variable(cur, ts[cur].Literal))
      [] OTHER -> Parser_error(ts, cur, "Expected expression")

RECURSIVE parseDecl(_, _), parseStmt(_, _), blockLoop(_, _, _)

\* An expression followed by the token tt: the tail shared by
\* parseExprStmt, parsePrintStmt, parseVarStmt and the parenthesised
\* conditions.
exprThen(ts, expr, tt, msg) ==
    IF expr.sig # "ok" THEN expr
    ELSE IF Kind(ts, expr.cur) # tt THEN Parser_error(ts, expr.cur, msg)
    ELSE POk(advance(ts, expr.cur), expr.node)

\* Parser.parseExprStmt
parseExprStmt_node(expr) ==
    IF expr.sig # "ok" THEN expr ELSE POk(expr.cur, ExprStmt(expr.node))

parseExprStmt(ts, cur) ==
    parseExprStmt_node(exprThen(ts, parseExpr(ts, cur), "SEMICOLON",
                                "Expected terminating ';' after expression."))

\* Parser.parsePrintStmt
parsePrintStmt_node(expr) ==
    IF expr.sig # "ok" THEN expr ELSE POk(expr.cur, PrintStmt(expr.node))

parsePrintStmt(ts, cur) ==
    parsePrintStmt_node(exprThen(ts, parseExpr(ts, cur), "SEMICOLON",
                                 "Expected terminating ';' after print value."))

\* Parser.parseVarStmt
parseVarStmt_node(name, init) ==
    IF init.sig # "ok" THEN init ELSE POk(init.cur, VarStmt(name, init.node))

parseVarStmt(ts, cur) ==
    IF Kind(ts, cur) # "IDENTIFIER" THEN Parser_error(ts, cur, "Expected variable name.")
    ELSE parseVarStmt_node(ts[cur].Literal,
            exprThen(ts, IF match(ts, cur + 1, {"EQUAL"}) THEN parseExpr(ts, cur + 2)
                                                          ELSE POk(cur + 1, NoNode),
                     "SEMICOLON", "Expected terminating ';' after print value."))

\* Parser.parseBlockStmt
blockNext(ts, stmts, s) ==
    IF s.sig # "ok" THEN s ELSE blockLoop(ts, s.cur, Append(stmts, s.node))

blockLoop(ts, cur, stmts) ==
    IF ~check(ts, cur, "BRACE_RIGHT") /\ ~isAtEnd(ts, cur)
    THEN blockNext(ts, stmts, parseDecl(ts, cur))
    ELSE IF Kind(ts, cur) # "BRACE_RIGHT"
    THEN Parser_error(ts, cur, "Expected closing '}' after block.")
    ELSE POk(advance(ts, cur), BlockStmt(stmts))

parseBlockStmt(ts, cur) == blockLoop(ts, cur, <<>>)

\* A condition in parentheses: '(' parseExpr ')'.
parenExpr(ts, cur, open, close) ==
    IF Kind(ts, cur) # "PAREN_LEFT" THEN Parser_error(ts, cur, open)
    ELSE exprThen(ts, parseExpr(ts, advance(ts, cur)), "PAREN_RIGHT", close)

\* Parser.parseIfStmt
parseIfStmt_else(cond, thenBranch, elseBranch) ==
    IF elseBranch.sig # "ok" THEN elseBranch
    ELSE POk(elseBranch.cur, IfStmt(cond.node, thenBranch.node, elseBranch.node))

parseIfStmt_then(ts, cond, thenBranch) ==
    IF thenBranch.sig # "ok" THEN thenBranch
    ELSE parseIfStmt_else(cond, thenBranch,
            IF match(ts, thenBranch.cur, {"ELSE"}) THEN parseStmt(ts, thenBranch.cur + 1)
                                                   ELSE POk(thenBranch.cur, NoNode))

parseIfStmt_cond(ts, cond) ==
    IF cond.sig # "ok" THEN cond ELSE parseIfStmt_then(ts, cond, parseStmt(ts, cond.cur))

parseIfStmt(ts, cur) ==
    parseIfStmt_cond(ts, parenExpr(ts, cur, "Expected opening '(' for if condition.",
                                   "Expected closing ')' for if condition."))

\* Parser.parseWhileStmt
parseWhileStmt_body(cond, body) ==
    IF body.sig # "ok" THEN body ELSE POk(body.cur, WhileStmt(cond.node, body.node))

parseWhileStmt_cond(ts, cond) ==
    IF cond.sig # "ok" THEN cond ELSE parseWhileStmt_body(cond, parseStmt(ts, cond.cur))

parseWhileStmt(ts, cur) ==
    parseWhileStmt_cond(ts, parenExpr(ts, cur, "Expected opening '(' for while condition.",
                                      "Expected closing ')' for while condition."))

\* Parser.parseForStmt reading the clauses; parseForStmt builds the node.
parseFor_body(init, cond, incr, body) ==
    IF body.sig # "ok" THEN body
    ELSE POk(body.cur, parseForStmt(init.node, cond.node, incr.node, body.node))

parseFor_incr(ts, init, cond, incr) ==
    IF incr.sig # "ok" THEN incr
    ELSE parseFor_body(init, cond, incr, parseStmt(ts, incr.cur))

parseFor_cond(ts, init, cond) ==
    IF cond.sig # "ok" THEN cond
    ELSE parseFor_incr(ts, init, cond,
            exprThen(ts, IF ~check(ts, cond.cur, "PAREN_RIGHT")
                         THEN parseExpr(ts, cond.cur) ELSE POk(cond.cur, NoNode),
                     "PAREN_RIGHT", "Expected ')' after for loop incrementor."))

parseFor_init(ts, init) ==
    IF init.sig # "ok" THEN init
    ELSE parseFor_cond(ts, init,
            exprThen(ts, IF ~check(ts, init.cur, "SEMICOLON")
                         THEN parseExpr(ts, init.cur) ELSE POk(init.cur, NoNode),
                     "SEMICOLON", "Expected ';' after for loop condition."))

parseForClauses(ts, cur) ==
    IF Kind(ts, cur) # "PAREN_LEFT" THEN Parser_error(ts, cur, "Expected opening '(' after 'for'.")
    ELSE parseFor_init(ts,
            CASE match(ts, cur + 1, {"SEMICOLON"}) -> POk(cur + 2, NoNode)
              [] match(ts, cur + 1, {"VAR"}) -> parseVarStmt(ts, cur + 2)
              [] OTHER -> parseExprStmt(ts, cur + 1))

\* Parser.parseStmt
parseStmt(ts, cur) ==
    CASE match(ts, cur, {"IF"}) -> parseIfStmt(ts, cur + 1)
      [] match(ts, cur, {"PRINT"}) -> parsePrintStmt(ts, cur + 1)
      [] match(ts, cur, {"WHILE"}) -> parseWhileStmt(ts, cur + 1)
      [] match(ts, cur, {"FOR"}) -> parseForClauses(ts, cur + 1)
      [] match(ts, cur, {"BRACE_LEFT"}) -> parseBlockStmt(ts, cur + 1)
      [] OTHER -> parseExprStmt(ts, cur)

\* Parser.parseFuncStmt reading the tokens: the parameter loop tests the
\* length before each append; parseFuncStmt builds the node.
\* One iteration of the parameter loop: "again" when a ',' follows.
paramsStep(ts, cur, params) ==
    IF Len(params) > ListLimit THEN parseErrf(cur, "Can't have more than 255 parameters.")
    ELSE IF Kind(ts, cur) # "IDENTIFIER" THEN Parser_error(ts, cur, "Expect parameter name.")
    ELSE IF match(ts, cur + 1, {"COMMA"})
    THEN [cur |-> cur + 2, node |-> Append(params, ts[cur].Literal), sig |-> "again",
          err |-> ""]
    ELSE POk(cur + 1, Append(params, ts[cur].Literal))

RECURSIVE paramsLoop(_, _, _)
paramsAgain(ts, r) == IF r.sig = "again" THEN paramsLoop(ts, r.cur, r.node) ELSE r

paramsLoop(ts, cur, params) == paramsAgain(ts, paramsStep(ts, cur, params))

parseFunc_body(name, params, body) ==
    IF body.sig # "ok" THEN body
    ELSE POk(body.cur, parseFuncStmt(name, params.node, body.node.statements))

parseFunc_params(ts, name, params) ==
    IF params.sig # "ok" THEN params
    ELSE IF Kind(ts, params.cur) # "PAREN_RIGHT"
    THEN Parser_error(ts, params.cur, "Expected closing ')' after function params.")
    ELSE IF Kind(ts, params.cur + 1) # "BRACE_LEFT"
    THEN Parser_error(ts, params.cur + 1, "Expected '{' before function body.")
    ELSE parseFunc_body(name, params, parseBlockStmt(ts, params.cur + 2))

parseFuncTokens(ts, cur) ==
    IF Kind(ts, cur) # "IDENTIFIER" THEN Parser_error(ts, cur, "Expect \"function\" name.")
    ELSE IF Kind(ts, cur + 1) # "PAREN_LEFT"
    THEN Parser_error(ts, cur + 1, "Expected opening '(' after function name.")
    ELSE parseFunc_params(ts, ts[cur].Literal,
            IF ~check(ts, cur + 2, "PAREN_RIGHT") THEN paramsLoop(ts, cur + 2, <<>>)
                                                  ELSE POk(cur + 2, <<>>))

\* Parser.parseDecl
parseDecl(ts, cur) ==
    CASE match(ts, cur, {"FUN"}) -> parseFuncTokens(ts, cur + 1)
      [] match(ts, cur, {"VAR"}) -> parseVarStmt(ts, cur + 1)
      [] OTHER -> parseStmt(ts, cur)

\* Parser.Parse: the statements parsed and the error returned (the message
\* without its line prefix).  The
\* deferred function turns a parsingError panic into the returned error
\* and lets every other panic go on ("panic": Parse does not return).
RECURSIVE parseLoop(_, _, _)
parseLoop_next(ts, stmts, s) ==
    CASE s.sig = "ok" -> parseLoop(ts, s.cur, Append(stmts, s.node))
      [] s.sig = "parsingError" -> [stmts |-> stmts, err |-> s.err, sig |-> "return"]
      [] s.sig = "outside" -> [stmts |-> stmts, err |-> s.err, sig |-> "outside"]
      [] OTHER -> [stmts |-> stmts, err |-> s.err, sig |-> "panic"]

parseLoop(ts, cur, stmts) ==
    IF ~isAtEnd(ts, cur) THEN parseLoop_next(ts, stmts, parseDecl(ts, cur))
    ELSE [stmts |-> stmts, err |-> "", sig |-> "return"]

Parse(ts) == parseLoop(ts, 1, <<>>)

(***************************************************************************)
(* Results of the recursive operators.                                     *)
(***************************************************************************)
Ok(I, v) == [I |-> I, v |-> v, sig |-> "ok", err |-> ""]
\* runtimeErrf: panic(runtimeError{...})
runtimeErrf(I, msg) == [I |-> I, v |-> Nil, sig |-> "err", err |-> msg]
\* panic(returnValue{value})
returnValue(I, v) == [I |-> I, v |-> v, sig |-> "ret", err |-> ""]
\* any other panic (nil pointer dereference, failed type assertion, ...)
Crash(I, msg) == [I |-> I, v |-> Nil, sig |-> "crash", err |-> msg]
\* a float64 the values of the model cannot hold: evaluation stops there
Outside(I, msg) == [I |-> I, v |-> Nil, sig |-> "outside", err |-> msg]
\* the float64 result f of an operator
Float(I, f) ==
    IF f.t = "outside" THEN Outside(I, "float64 that needs rounding or is too large")
    ELSE Ok(I, f)

Put(m, key, v) == [x \in (DOMAIN m) \cup {key} |-> IF x = key THEN v ELSE m[x]]
EmptyMap == [x \in {} |-> Nil]
Log(I, e) == [I EXCEPT !.trace = Append(@, e)]

(***************************************************************************)
(* Env                                                                     *)
(***************************************************************************)
\* NewEnv / Env{vars: map[string]any{}, enclosing: nil}
NewEnv == [vars |-> EmptyMap, enclosing |-> NilPtr]

\* Env.Fork: allocates the child; the new Env is the last one of I.envs.
Fork(I, e) == [I EXCEPT !.envs = Append(@, [vars |-> EmptyMap, enclosing |-> e])]
Forked(I) == Len(I.envs)

\* Env.define
Env_define(I, e, name, val) == [I EXCEPT !.envs[e].vars = Put(@, name, val)]

\* Env.assign
RECURSIVE Env_assign(_, _, _, _)
Env_assign(I, e, name, val) ==
    IF e = NilPtr THEN Crash(I, "nil pointer dereference")
    ELSE IF name \in DOMAIN I.envs[e].vars
         THEN Ok([I EXCEPT !.envs[e].vars[name] = val], val)
    ELSE IF I.envs[e].enclosing # NilPtr
         THEN Env_assign(I, I.envs[e].enclosing, name, val)
    ELSE runtimeErrf(I, "undefined " \o Quote(name))

\* Env.get
Env_get(I, e, name) ==
    IF e = NilPtr THEN Crash(I, "nil pointer dereference")
    ELSE IF name \notin DOMAIN I.envs[e].vars THEN runtimeErrf(I, "undefined " \o Quote(name))
    ELSE Ok(I, I.envs[e].vars[name])

\* Env.up: -1 stands for the nil pointer dereference of a walk that steps
\* past the outermost Env.
RECURSIVE Env_up(_, _, _)
Env_up(I, e, distance) ==
    IF distance <= 0 THEN e
    ELSE IF e = NilPtr THEN -1
    ELSE Env_up(I, I.envs[e].enclosing, distance - 1)

\* i.scope.up(distance).get(name)
upGet(I, distance, name) ==
    LET e == Env_up(I, I.scope, distance)
    IN IF e = -1 THEN Crash(I, "nil pointer dereference") ELSE Env_get(I, e, name)

(***************************************************************************)
(* History kept beside the interpreter: one record per statement started,  *)
(* return raised, variable looked up, and construct left.  For a lookup,   *)
(* env is the Env the name was sought in and own tells whether the own     *)
(* map of that Env held the name.                                          *)
(***************************************************************************)
BaseEv == [ev |-> "", kind |-> "", depth |-> 0, before |-> 0, after |-> 0,
           sig |-> "", body |-> "", fn |-> 0, val |-> Nil, id |-> 0, name |-> "",
           local |-> FALSE, inGlobal |-> FALSE, args |-> <<>>, fields |-> EmptyMap,
           bare |-> FALSE, env |-> 0, own |-> FALSE]

\* Number of LoxFunction.call frames on the Go stack, and the function of
\* the innermost one.
Depth(I) == Len(I.frames)
Active(I) == IF I.frames = <<>> THEN 0 ELSE I.frames[Len(I.frames)]

(***************************************************************************)
(* Helpers of the evaluator                                                *)
(***************************************************************************)
\* isTruthy: literal false and nil are falsy.
isTruthy(v) ==
    IF v.t = "nil" THEN FALSE
    ELSE IF v.t = "bool" THEN v.n = 1
    ELSE TRUE

\* isEqual
isEqual(a, b) ==
    IF a.t = "nil" /\ b.t = "nil" THEN TRUE
    ELSE IF a.t = "nil" THEN FALSE
    ELSE IF a.t = "float64" /\ b.t = "float64" THEN FEq(a, b)
    ELSE a = b

\* mustBeNumbers: TRUE when it panics.
mustBeNumbers(args) == \E j \in 1..Len(args) : args[j].t # "float64"
\* The message it panics with: the operator and the type of the first
\* argument that is no float64.
mustBeNumbers_msg(op, args) ==
    Quote(Lexeme(op)) \o " requires number arguments: "
    \o TypeName(args[CHOOSE j \in 1..Len(args) :
                        /\ args[j].t # "float64"
                        /\ \A x \in 1..(j - 1) : args[x].t = "float64"])

ArithOps == {"PLUS", "DASH", "STAR", "SLASH"}
CompareOps == {"GREATER", "GREATER_EQUAL", "LESS", "LESS_EQUAL"}

\* runtimeErrf("Expected %d arguments but got %d", ...)
Expected(want, got) ==
    "Expected " \o ToString(want) \o " arguments but got " \o ToString(got)

\* The switches of the BinaryExpr case without the calls of mustBeNumbers:
\* the type assertion l.(float64) of the operator panics instead.
binaryOp_unchecked(I, op, l, r) ==
    IF op = "EQUAL_EQUAL" THEN Ok(I, Bool(isEqual(l, r)))
    ELSE IF op = "BANG_EQUAL" THEN Ok(I, Bool(~isEqual(l, r)))
    ELSE IF op \notin (ArithOps \cup CompareOps) THEN runtimeErrf(I, "impossible binary")
    ELSE IF mustBeNumbers(<<l, r>>) THEN Crash(I, "interface conversion")
    ELSE CASE op = "PLUS" -> Float(I, FAdd(l, r))
           [] op = "DASH" -> Float(I, FSub(l, r))
           [] op = "STAR" -> Float(I, FMul(l, r))
           [] op = "SLASH" -> Float(I, FDiv(l, r))
           [] op = "GREATER" -> Ok(I, Bool(FLess(r, l)))
           [] op = "GREATER_EQUAL" -> Ok(I, Bool(FLess(r, l) \/ FEq(l, r)))
           [] op = "LESS" -> Ok(I, Bool(FLess(l, r)))
           [] op = "LESS_EQUAL" -> Ok(I, Bool(FLess(l, r) \/ FEq(l, r)))

\* The two switches of the BinaryExpr case.
binaryOp(I, op, l, r) ==
    IF op = "EQUAL_EQUAL" THEN Ok(I, Bool(isEqual(l, r)))
    ELSE IF op = "BANG_EQUAL" THEN Ok(I, Bool(~isEqual(l, r)))
    ELSE IF op \notin (ArithOps \cup CompareOps) THEN runtimeErrf(I, "impossible binary")
    ELSE IF mustBeNumbers(<<l, r>>) THEN runtimeErrf(I, mustBeNumbers_msg(op, <<l, r>>))
    ELSE CASE op = "PLUS" -> Float(I, FAdd(l, r))
           [] op = "DASH" -> Float(I, FSub(l, r))
           [] op = "STAR" -> Float(I, FMul(l, r))
           [] op = "SLASH" -> Float(I, FDiv(l, r))
           [] op = "GREATER" -> Ok(I, Bool(FLess(r, l)))
           [] op = "GREATER_EQUAL" -> Ok(I, Bool(FLess(r, l) \/ FEq(l, r)))
           [] op = "LESS" -> Ok(I, Bool(FLess(l, r)))
           [] op = "LESS_EQUAL" -> Ok(I, Bool(FLess(l, r) \/ FEq(l, r)))

\* fmt.Fprintf(i.out, "%v\n", val) with the String methods of the values.
format(I, v) ==
    CASE v.t = "nil" -> "<nil>"
      [] v.t = "bool" -> IF v.n = 1 THEN "true" ELSE "false"
      [] v.t = "float64" -> FormatFloat(v)
      [] v.t = "int64" -> ToString(v.n)
      [] v.t = "string" -> v.s
      [] v.t = "LoxFunction" -> "<fn " \o I.funs[v.n].decl.name \o ">"
      [] v.t = "LoxClass" -> "<class " \o I.classes[v.n].name \o ">"
      [] v.t = "LoxInstance" -> "<instance " \o I.classes[I.insts[v.n].class].name \o ">"
      [] v.t = "builtinClock" -> "&{}"

(***************************************************************************)
(* Callables: LoxFunction, LoxClass, LoxInstance                           *)
(***************************************************************************)
\* &LoxFunction{decl, closure, isInitializer}: the new function is the last
\* one of I.funs.
NewFunction(I, decl, closure, isInit) ==
    [I EXCEPT !.funs = Append(@, [decl |-> decl, closure |-> closure,
                                  isInitializer |-> isInit])]
Allocated(I) == Len(I.funs)

\* LoxFunction.bind defining this in the method's own closure instead of in
\* a fork of it.
bind_inPlace(I, f, inst) ==
    LET I2 == Env_define(I, I.funs[f].closure, "this", InstRef(inst))
    IN NewFunction(I2, I.funs[f].decl, I.funs[f].closure, I.funs[f].isInitializer)

\* LoxFunction.bind
bind(I, f, inst) ==
    LET I1 == Fork(I, I.funs[f].closure)
        env == Forked(I1)
        I2 == Env_define(I1, env, "this", InstRef(inst))
    IN NewFunction(I2, I.funs[f].decl, env, I.funs[f].isInitializer)

\* LoxClass.findMethod asking the superclass before the class's own methods.
RECURSIVE findMethod_superFirst(_, _, _)
findMethod_superFirst(I, c, name) ==
    LET inherited == IF I.classes[c].super # NilPtr
                     THEN findMethod_superFirst(I, I.classes[c].super, name)
                     ELSE NilPtr
    IN IF inherited # NilPtr THEN inherited
       ELSE IF name \in DOMAIN I.classes[c].methods THEN I.classes[c].methods[name]
       ELSE NilPtr

\* LoxClass.findMethod; NilPtr when no class of the chain has the method.
RECURSIVE findMethod(_, _, _)
findMethod(I, c, name) ==
    IF name \in DOMAIN I.classes[c].methods THEN I.classes[c].methods[name]
    ELSE IF I.classes[c].super # NilPtr THEN findMethod(I, I.classes[c].super, name)
    ELSE NilPtr

\* LoxFunction.arity
LoxFunction_arity(I, f) == Len(I.funs[f].decl.params)

\* LoxClass.arity
LoxClass_arity(I, c) ==
    LET init == findMethod(I, c, "init")
    IN IF init = NilPtr THEN 0 ELSE LoxFunction_arity(I, init)

\* callable.arity() of the three implementations.
arity(I, callee) ==
    CASE callee.t = "LoxFunction" -> LoxFunction_arity(I, callee.n)
      [] callee.t = "LoxClass" -> LoxClass_arity(I, callee.n)
      [] callee.t = "builtinClock" -> 0

\* callee.(callable)
isCallable(v) == v.t \in {"LoxFunction", "LoxClass", "builtinClock"}

\* LoxInstance.set
LoxInstance_set(I, inst, name, v) == [I EXCEPT !.insts[inst].fields = Put(@, name, v)]

\* LoxInstance.get looking for a method before the fields.
LoxInstance_get_methodFirst(I, inst, name) ==
    LET m == findMethod(I, I.insts[inst].class, name)
    IN IF m # NilPtr
       THEN LET I1 == bind(I, m, inst) IN Ok(I1, FnRef(Allocated(I1)))
       ELSE IF name \in DOMAIN I.insts[inst].fields
       THEN Ok(I, I.insts[inst].fields[name])
       ELSE runtimeErrf(I, "Undefined property " \o Quote(name))

\* LoxInstance.get
LoxInstance_get(I, inst, name) ==
    IF name \in DOMAIN I.insts[inst].fields THEN Ok(I, I.insts[inst].fields[name])
    ELSE LET m == findMethod(I, I.insts[inst].class, name)
         IN IF m # NilPtr
            THEN LET I1 == bind(I, m, inst) IN Ok(I1, FnRef(Allocated(I1)))
            ELSE runtimeErrf(I, "Undefined property " \o Quote(name))

\* builtinClock.call: time.Now().Unix() is an int64, the next reading of
\* the wall clock.  I.wall holds the readings of the run; a call after the
\* last of them has no value here and evaluation stops.
builtinClock_call(I) ==
    IF I.reads >= Len(I.wall)
    THEN Outside(I, "a reading of the wall clock after the last of the run")
    ELSE Ok([I EXCEPT !.reads = @ + 1], Int64(I.wall[I.reads + 1]))

(***************************************************************************)
(* Interpreter                                                             *)
(***************************************************************************)
StmtKinds == {"PrintStmt", "ExprStmt", "FuncStmt", "VarStmt", "BlockStmt",
              "IfStmt", "WhileStmt", "ReturnStmt", "ClassStmt"}

RECURSIVE execute(_, _), executeBlock(_, _, _), executeStmts(_, _, _),
          executeArgs(_, _, _, _), whileLoop(_, _), declareMethods(_, _, _, _),
          LoxFunction_call(_, _, _), LoxClass_call(_, _, _), call(_, _, _)

\* The Env a node's name is read from or assigned in: i.scope.up(distance)
\* for a node in locals (NilPtr or -1 when the walk leaves the chain), the
\* global Env otherwise; and whether the own map of that Env holds the name.
Reached(I, node) ==
    IF node.id \in DOMAIN I.locals THEN Env_up(I, I.scope, I.locals[node.id]) ELSE I.global
Owns(I, e, name) == e >= 1 /\ name \in DOMAIN I.envs[e].vars

\* A lookup that ignores locals and takes the nearest Env of the current
\* chain that holds the name.
RECURSIVE Env_nearest(_, _, _)
Env_nearest(I, e, name) ==
    IF e = NilPtr \/ name \in DOMAIN I.envs[e].vars THEN e
    ELSE Env_nearest(I, I.envs[e].enclosing, name)

lookupVariable_dynamic(I, name, node) ==
    LET e == Env_nearest(I, I.scope, name)
        r == IF e = NilPtr THEN runtimeErrf(I, "undefined " \o Quote(name)) ELSE Env_get(I, e, name)
    IN [r EXCEPT !.I = Log(@, [BaseEv EXCEPT !.ev = "lookup", !.kind = node.kind,
                                !.depth = Depth(I), !.id = node.id, !.name = name,
                                !.local = node.id \in DOMAIN I.locals,
                                !.sig = r.sig, !.val = r.v,
                                !.inGlobal = name \in DOMAIN I.envs[I.global].vars,
                                !.fn = Active(I), !.env = e, !.own = Owns(I, e, name),
                                !.before = I.scope, !.after = I.scope])]

\* Interpreter.lookupVariable
lookupVariable(I, name, node) ==
    LET isLocal == node.id \in DOMAIN I.locals
        r == IF ~isLocal THEN Env_get(I, I.global, name)
             ELSE upGet(I, I.locals[node.id], name)
    IN [r EXCEPT !.I = Log(@, [BaseEv EXCEPT !.ev = "lookup", !.kind = node.kind,
                                !.depth = Depth(I), !.id = node.id, !.name = name,
                                !.local = isLocal, !.sig = r.sig, !.val = r.v,
                                !.inGlobal = name \in DOMAIN I.envs[I.global].vars,
                                !.fn = Active(I), !.env = Reached(I, node),
                                !.own = Owns(I, Reached(I, node), name),
                                !.before = I.scope, !.after = I.scope])]

\* The Assign case with a node absent from locals assigned through the
\* current Env chain instead of the global Env.
assignVariable_fromScope(I, node, val) ==
    LET isLocal == node.id \in DOMAIN I.locals
        e == IF isLocal THEN Env_up(I, I.scope, I.locals[node.id]) ELSE I.scope
        r == IF e = -1 THEN Crash(I, "nil pointer dereference")
             ELSE Env_assign(I, e, node.name, val)
    IN [r EXCEPT !.I = Log(@, [BaseEv EXCEPT !.ev = "lookup", !.kind = node.kind,
                                !.depth = Depth(I), !.id = node.id, !.name = node.name,
                                !.local = isLocal, !.sig = r.sig, !.val = val,
                                !.inGlobal = node.name \in DOMAIN I.envs[I.global].vars,
                                !.fn = Active(I), !.env = e,
                                !.own = Owns(I, e, node.name),
                                !.before = I.scope, !.after = I.scope])]

\* The Assign case of execute, after the value was evaluated.
assignVariable(I, node, val) ==
    LET isLocal == node.id \in DOMAIN I.locals
        e == IF isLocal THEN Env_up(I, I.scope, I.locals[node.id]) ELSE I.global
        r == IF e = -1 THEN Crash(I, "nil pointer dereference")
             ELSE Env_assign(I, e, node.name, val)
    IN [r EXCEPT !.I = Log(@, [BaseEv EXCEPT !.ev = "lookup", !.kind = node.kind,
                                !.depth = Depth(I), !.id = node.id, !.name = node.name,
                                !.local = isLocal, !.sig = r.sig, !.val = val,
                                !.inGlobal = node.name \in DOMAIN I.envs[I.global].vars,
                                !.fn = Active(I), !.env = e,
                                !.own = Owns(I, e, node.name),
                                !.before = I.scope, !.after = I.scope])]

\* The parameter loop of LoxFunction.call: env.define(param.Literal, args[i]).
RECURSIVE defineParams(_, _, _, _, _)
defineParams(I, env, params, args, j) ==
    IF j > Len(params) THEN I
    ELSE defineParams(Env_define(I, env, params[j], args[j]), env, params, args, j + 1)

\* executeBlock restoring i.scope after the loop instead of in a defer: a
\* panic leaves the inner Env current.
executeBlock_noDefer(I, statements, env) ==
    LET prev == I.scope
        r == executeStmts([I EXCEPT !.scope = env], statements, 1)
    IN IF r.sig = "ok" THEN [r EXCEPT !.I.scope = prev] ELSE r

\* Interpreter.executeBlock: the deferred i.scope = prev runs on every exit.
executeBlock(I, statements, env) ==
    LET prev == I.scope
        r == executeStmts([I EXCEPT !.scope = env], statements, 1)
    IN [r EXCEPT !.I.scope = prev]

\* for _, s := range statements { i.execute(s) }
executeStmts(I, statements, j) ==
    IF j > Len(statements) THEN Ok(I, Nil)
    ELSE LET r == execute(I, statements[j])
         IN IF r.sig # "ok" THEN r ELSE executeStmts(r.I, statements, j + 1)

\* The argument loop of the Call case: args = append(args, i.execute(a)).
executeArgs(I, argNodes, j, acc) ==
    IF j > Len(argNodes) THEN [I |-> I, v |-> Nil, sig |-> "ok", err |-> "", args |-> acc]
    ELSE LET r == execute(I, argNodes[j])
         IN IF r.sig # "ok"
            THEN [I |-> r.I, v |-> r.v, sig |-> r.sig, err |-> r.err, args |-> acc]
            ELSE executeArgs(r.I, argNodes, j + 1, Append(acc, r.v))

\* The WhileStmt case of execute.
whileLoop(I, node) ==
    LET c == execute(I, node.cond)
    IN IF c.sig # "ok" THEN c
       ELSE IF ~isTruthy(c.v) THEN Ok(c.I, Nil)
       ELSE LET b == execute(c.I, node.body)
            IN IF b.sig # "ok" THEN b ELSE whileLoop(b.I, node)

\* LoxFunction.call without the recover of its deferred function: the
\* returnValue panic of a return statement goes on into the caller.
LoxFunction_noRecover(I0, f, env, args, b) ==
    [b EXCEPT !.I = Log([@ EXCEPT !.frames = I0.frames],
                        [BaseEv EXCEPT !.ev = "exit", !.kind = "call",
                            !.depth = Depth(I0) + 1, !.before = I0.scope,
                            !.after = b.I.scope, !.sig = b.sig,
                            !.body = b.sig, !.fn = f, !.val = b.v,
                            !.id = env, !.args = args])]

\* The deferred function of LoxFunction.call without the initializer case
\* for a caught return: the carried value is the result.
LoxFunction_recoverCarried(I0, f, env, args, b) ==
    LET fn == I0.funs[f]
        this == Env_get(b.I, fn.closure, "this")
        res == IF b.sig = "ret"
               THEN Ok(b.I, b.v)
               ELSE IF b.sig = "ok"
               THEN (IF fn.isInitializer THEN this ELSE Ok(b.I, Nil))
               ELSE b
    IN [res EXCEPT !.I = Log([@ EXCEPT !.frames = I0.frames],
                             [BaseEv EXCEPT !.ev = "exit", !.kind = "call",
                                 !.depth = Depth(I0) + 1, !.before = I0.scope,
                                 !.after = res.I.scope, !.sig = res.sig,
                                 !.body = b.sig, !.fn = f, !.val = res.v,
                                 !.id = env, !.args = args])]

\* The deferred function of LoxFunction.call: recover() turns a returnValue
\* panic into the result and re-panics everything else; b is the outcome of
\* executeBlock and env the Env the call forked.
LoxFunction_recover(I0, f, env, args, b) ==
    LET fn == I0.funs[f]
        this == Env_get(b.I, fn.closure, "this")
        res == IF b.sig = "ret"
               THEN (IF fn.isInitializer THEN this ELSE Ok(b.I, b.v))
               ELSE IF b.sig = "ok"
               THEN (IF fn.isInitializer THEN this ELSE Ok(b.I, Nil))
               ELSE b
    IN [res EXCEPT !.I = Log([@ EXCEPT !.frames = I0.frames],
                             [BaseEv EXCEPT !.ev = "exit", !.kind = "call",
                                 !.depth = Depth(I0) + 1, !.before = I0.scope,
                                 !.after = res.I.scope, !.sig = res.sig,
                                 !.body = b.sig, !.fn = f, !.val = res.v,
                                 !.id = env, !.args = args])]

\* LoxFunction.call: fork the closure, define the parameters, run the body.
LoxFunction_call(I0, f, args) ==
    LET fn == I0.funs[f]
        I1 == Fork([I0 EXCEPT !.frames = Append(@, f)], fn.closure)
        env == Forked(I1)
    IN LoxFunction_recover(I0, f, env, args,
            IF Len(args) < Len(fn.decl.params)
            THEN Crash(I1, "index out of range")
            ELSE executeBlock(defineParams(I1, env, fn.decl.params, args, 1),
                              fn.decl.body, env))

\* The end of LoxClass.call: return instance; r is the outcome of the
\* initializer, init the bound initializer (0 when the class has none).
LoxClass_instance(I, c, args, instance, init, r) ==
    LET res == IF r.sig = "ok" THEN Ok(r.I, InstRef(instance)) ELSE r
    IN [res EXCEPT !.I = Log(@, [BaseEv EXCEPT !.ev = "construct", !.kind = "LoxClass",
                                  !.depth = Depth(I), !.before = Len(I.insts),
                                  !.after = instance, !.sig = res.sig, !.body = r.sig,
                                  !.fn = init, !.val = res.v, !.id = c, !.args = args,
                                  !.fields = res.I.insts[instance].fields])]

\* LoxClass.call looking for init in the class's own methods only.
LoxClass_call_ownInit(I, c, args) ==
    LET I1 == [I EXCEPT !.insts = Append(@, [class |-> c, fields |-> EmptyMap])]
        instance == Len(I.insts) + 1
        init == IF "init" \in DOMAIN I.classes[c].methods
                THEN I.classes[c].methods["init"] ELSE NilPtr
        I2 == bind(I1, init, instance)
    IN IF init = NilPtr
       THEN LoxClass_instance(I, c, args, instance, 0, Ok(I1, Nil))
       ELSE LoxClass_instance(I, c, args, instance, Allocated(I2),
                              LoxFunction_call(I2, Allocated(I2), args))

\* LoxClass.call: calling a class constructs an instance.
LoxClass_call(I, c, args) ==
    LET I1 == [I EXCEPT !.insts = Append(@, [class |-> c, fields |-> EmptyMap])]
        instance == Len(I.insts) + 1
        init == findMethod(I1, c, "init")
        I2 == bind(I1, init, instance)
    IN IF init = NilPtr
       THEN LoxClass_instance(I, c, args, instance, 0, Ok(I1, Nil))
       ELSE LoxClass_instance(I, c, args, instance, Allocated(I2),
                              LoxFunction_call(I2, Allocated(I2), args))

\* callable.call(i, args) of the three implementations.
call(I, callee, args) ==
    CASE callee.t = "LoxFunction" -> LoxFunction_call(I, callee.n, args)
      [] callee.t = "LoxClass" -> LoxClass_call(I, callee.n, args)
      [] callee.t = "builtinClock" -> builtinClock_call(I)

\* The method loop of the ClassStmt case with every method closing over the
\* global Env instead of the current one.
RECURSIVE declareMethods_globalClosure(_, _, _, _)
declareMethods_globalClosure(I, methods, j, acc) ==
    IF j > Len(methods) THEN [I |-> I, v |-> Nil, sig |-> "ok", err |-> "", methods |-> acc]
    ELSE IF methods[j].kind # "FuncStmt"
    THEN [I |-> I, v |-> Nil, sig |-> "err", err |-> "not a method", methods |-> acc]
    ELSE LET I1 == NewFunction(I, methods[j], I.global, methods[j].name = "init")
         IN declareMethods_globalClosure(I1, methods, j + 1,
                                         Put(acc, methods[j].name, Allocated(I1)))

\* The method loop of the ClassStmt case.
declareMethods(I, methods, j, acc) ==
    IF j > Len(methods) THEN [I |-> I, v |-> Nil, sig |-> "ok", err |-> "", methods |-> acc]
    ELSE IF methods[j].kind # "FuncStmt"
    THEN [I |-> I, v |-> Nil, sig |-> "err", err |-> "not a method", methods |-> acc]
    ELSE LET I1 == NewFunction(I, methods[j], I.scope, methods[j].name = "init")
         IN declareMethods(I1, methods, j + 1, Put(acc, methods[j].name, Allocated(I1)))

\* The end of the ClassStmt case: the deferred i.scope = i.scope.enclosing of
\* a class with a superclass runs on every exit.
classExit(I, v, super, id, body) ==
    LET res == IF super # NilPtr
               THEN [body EXCEPT !.I.scope = body.I.envs[body.I.scope].enclosing]
               ELSE body
    IN IF super # NilPtr
       THEN [res EXCEPT !.I = Log(@, [BaseEv EXCEPT !.ev = "exit", !.kind = "class",
                                        !.depth = Depth(I), !.before = I.scope,
                                        !.after = res.I.scope, !.sig = res.sig,
                                        !.id = id, !.name = v.name])]
       ELSE res

\* return nil after a call that returned
returnNil(r) == IF r.sig = "ok" THEN Ok(r.I, Nil) ELSE r

\* class := &LoxClass{...}; i.scope.assign(v.name.Literal, class); return nil,
\* with m the outcome of the method loop.
classAssign(I, v, super, m) ==
    LET I3 == [m.I EXCEPT !.classes = Append(@, [name |-> v.name,
                                                 methods |-> m.methods,
                                                 super |-> super])]
        id == Len(m.I.classes) + 1
    IN IF m.sig # "ok" THEN classExit(I, v, super, id, runtimeErrf(m.I, m.err))
       ELSE classExit(I, v, super, id,
                      returnNil(Env_assign(I3, I3.scope, v.name, ClassRef(id))))

\* if v.super != nil { i.scope = i.scope.Fork(); ...; define("super", super) }
\* and the method loop; I1 is the interpreter after the class name is defined.
classScope(I, v, super, I1) ==
    LET F == Fork(I1, I1.scope)
    IN IF super # NilPtr
       THEN classAssign(I, v, super,
                declareMethods(Env_define([F EXCEPT !.scope = Forked(F)], Forked(F),
                                          "super", ClassRef(super)),
                               v.methods, 1, EmptyMap))
       ELSE classAssign(I, v, super, declareMethods(I1, v.methods, 1, EmptyMap))

\* The ClassStmt case of execute.
classStmt(I, v) ==
    LET hasSuper == v.super.kind # "nil"
        sv == IF hasSuper THEN execute(I, v.super) ELSE Ok(I, Nil)
    IN IF sv.sig # "ok" THEN sv
       ELSE IF hasSuper /\ sv.v.t # "LoxClass"
       THEN runtimeErrf(sv.I, "Superclass must be a class.")
       ELSE classScope(I, v, IF hasSuper THEN sv.v.n ELSE NilPtr,
                       Env_define(sv.I, sv.I.scope, v.name, Nil))

\* The end of the SuperExpr case: method := super.findMethod(...);
\* return method.bind(obj).
superBind(I, v, super, obj) ==
    LET method == findMethod(I, super, v.method)
        I1 == bind(I, method, obj)
        r == IF method = NilPtr THEN runtimeErrf(I, "Undefined property " \o Quote(v.method))
             ELSE Ok(I1, FnRef(Allocated(I1)))
    IN [r EXCEPT !.I = Log(@, [BaseEv EXCEPT !.ev = "super", !.kind = "SuperExpr",
                                !.depth = Depth(I), !.id = super, !.after = obj,
                                !.name = v.method, !.sig = r.sig, !.val = r.v,
                                !.body = r.err, !.fn = Active(I),
                                !.before = I.scope])]

\* The SuperExpr case looking the method up from the superclass of the
\* class of the current instance.
superExpr_dynamic(I, v) ==
    LET dist == IF v.id \in DOMAIN I.locals THEN I.locals[v.id] ELSE 0
        s == upGet(I, dist, "super")
        o == upGet(I, dist - 1, "this")
    IN IF s.sig # "ok" THEN s
       ELSE IF s.v.t # "LoxClass" THEN runtimeErrf(I, "not a class")
       ELSE IF o.sig # "ok" THEN o
       ELSE IF o.v.t # "LoxInstance" THEN runtimeErrf(I, "not an instance")
       ELSE superBind(I, v, I.classes[I.insts[o.v.n].class].super, o.v.n)

\* The SuperExpr case of execute.
superExpr(I, v) ==
    LET dist == IF v.id \in DOMAIN I.locals THEN I.locals[v.id] ELSE 0
        s == upGet(I, dist, "super")
        o == upGet(I, dist - 1, "this")
    IN IF s.sig # "ok" THEN s
       ELSE IF s.v.t # "LoxClass" THEN runtimeErrf(I, "not a class")
       ELSE IF o.sig # "ok" THEN o
       ELSE IF o.v.t # "LoxInstance" THEN runtimeErrf(I, "not an instance")
       ELSE superBind(I, v, s.v.n, o.v.n)

\* The Call case evaluating the arguments before the callee.
callExpr_argsFirst(I, v) ==
    LET a == executeArgs(I, v.args, 1, <<>>)
        c == execute(a.I, v.callee)
    IN IF a.sig # "ok" THEN [I |-> a.I, v |-> a.v, sig |-> a.sig, err |-> a.err]
       ELSE IF c.sig # "ok" THEN c
       ELSE IF ~isCallable(c.v) THEN runtimeErrf(c.I, "Not callable " \o TypeName(c.v))
       ELSE IF arity(c.I, c.v) # Len(a.args)
       THEN runtimeErrf(c.I, Expected(arity(c.I, c.v), Len(a.args)))
       ELSE call(c.I, c.v, a.args)

\* The Call case of execute.
callExpr(I, v) ==
    LET c == execute(I, v.callee)
        a == executeArgs(c.I, v.args, 1, <<>>)
    IN IF c.sig # "ok" THEN c
       ELSE IF a.sig # "ok" THEN [I |-> a.I, v |-> a.v, sig |-> a.sig, err |-> a.err]
       ELSE IF ~isCallable(c.v) THEN runtimeErrf(a.I, "Not callable " \o TypeName(c.v))
       ELSE IF arity(a.I, c.v) # Len(a.args)
       THEN runtimeErrf(a.I, Expected(arity(a.I, c.v), Len(a.args)))
       ELSE call(a.I, c.v, a.args)

\* The GetExpr case of execute.
getExpr(I, v) ==
    LET obj == execute(I, v.object)
        r == LoxInstance_get(obj.I, obj.v.n, v.name)
    IN IF obj.sig # "ok" THEN obj
       ELSE IF obj.v.t # "LoxInstance"
       THEN runtimeErrf(obj.I, "Object " \o TypeName(obj.v)
                                \o " does not have properties, must be instance.")
       ELSE [r EXCEPT !.I = Log(@, [BaseEv EXCEPT !.ev = "get", !.kind = "GetExpr",
                                      !.depth = Depth(I), !.id = obj.v.n,
                                      !.name = v.name, !.sig = r.sig, !.val = r.v,
                                      !.before = Len(obj.I.envs), !.after = I.scope,
                                      !.body = r.err,
                                      !.fields = obj.I.insts[obj.v.n].fields])]

\* The SetExpr case of execute.
setExpr(I, v) ==
    LET obj == execute(I, v.object)
        val == execute(obj.I, v.value)
        I1 == LoxInstance_set(val.I, obj.v.n, v.name, val.v)
    IN IF obj.sig # "ok" THEN obj
       ELSE IF obj.v.t # "LoxInstance"
       THEN runtimeErrf(obj.I, "Object " \o TypeName(obj.v)
                                \o " does not have fields, must be instance.")
       ELSE IF val.sig # "ok" THEN val
       ELSE Ok(Log(I1, [BaseEv EXCEPT !.ev = "set", !.kind = "SetExpr",
                          !.depth = Depth(I), !.id = obj.v.n, !.name = v.name,
                          !.sig = "ok", !.val = val.v,
                          !.fields = I1.insts[obj.v.n].fields]), val.v)

\* The FuncStmt case with the global Env captured instead of the current one.
funcStmt_globalClosure(I, v) ==
    LET I1 == NewFunction(I, v, I.global, FALSE)
        I2 == Env_define(I1, I1.scope, v.name, FnRef(Allocated(I1)))
    IN Ok(Log(I2, [BaseEv EXCEPT !.ev = "funcdecl", !.kind = "FuncStmt",
                      !.depth = Depth(I), !.fn = Allocated(I1), !.name = v.name,
                      !.before = I.scope, !.after = I2.scope, !.sig = "ok"]), Nil)

\* The FuncStmt case of execute.
funcStmt(I, v) ==
    LET I1 == NewFunction(I, v, I.scope, FALSE)
        I2 == Env_define(I1, I1.scope, v.name, FnRef(Allocated(I1)))
    IN Ok(Log(I2, [BaseEv EXCEPT !.ev = "funcdecl", !.kind = "FuncStmt",
                      !.depth = Depth(I), !.fn = Allocated(I1), !.name = v.name,
                      !.before = I.scope, !.after = I2.scope, !.sig = "ok"]), Nil)

\* The BlockStmt case of execute.
blockStmt(I, v) ==
    LET F == Fork(I, I.scope)
        r == executeBlock(F, v.statements, Forked(F))
        res == IF r.sig = "ok" THEN Ok(r.I, Nil) ELSE r
    IN [res EXCEPT !.I = Log(@, [BaseEv EXCEPT !.ev = "exit", !.kind = "block",
                                   !.depth = Depth(I), !.before = I.scope,
                                   !.after = res.I.scope, !.sig = res.sig])]

\* The LogicalExpr case yielding the truthiness of the determining operand
\* instead of the operand.
logicalExpr_coerced(I, v) ==
    LET left == execute(I, v.left)
        right == execute(left.I, v.right)
    IN IF left.sig # "ok" THEN left
       ELSE IF v.op = "OR" /\ isTruthy(left.v) THEN Ok(left.I, Bool(TRUE))
       ELSE IF v.op = "AND" /\ ~isTruthy(left.v) THEN Ok(left.I, Bool(FALSE))
       ELSE IF v.op \notin {"OR", "AND"} THEN Crash(left.I, "impossible logical")
       ELSE IF right.sig # "ok" THEN right
       ELSE Ok(right.I, Bool(isTruthy(right.v)))

\* The LogicalExpr case of execute.
logicalExpr(I, v) ==
    LET left == execute(I, v.left)
    IN IF left.sig # "ok" THEN left
       ELSE IF v.op = "OR" /\ isTruthy(left.v) THEN left
       ELSE IF v.op = "AND" /\ ~isTruthy(left.v) THEN left
       ELSE IF v.op \notin {"OR", "AND"} THEN Crash(left.I, "impossible logical")
       ELSE execute(left.I, v.right)

\* The Assign case evaluating the value expression a second time for the
\* value it stores and yields.
assignExpr_twice(I, v) ==
    LET first == execute(I, v.val)
        val == execute(first.I, v.val)
        a == assignVariable(val.I, v, val.v)
    IN IF first.sig # "ok" THEN first
       ELSE IF val.sig # "ok" THEN val
       ELSE IF a.sig # "ok" THEN a
       ELSE Ok(a.I, val.v)

\* The Assign case of execute.
assignExpr(I, v) ==
    LET val == execute(I, v.val)
        a == assignVariable(val.I, v, val.v)
    IN IF val.sig # "ok" THEN val
       ELSE IF a.sig # "ok" THEN a
       ELSE Ok(a.I, val.v)

\* Interpreter.execute: the AST visitor.
execute(I0, node) ==
    LET I == IF node.kind \in StmtKinds
             THEN Log(I0, [BaseEv EXCEPT !.ev = "stmt", !.kind = node.kind,
                                         !.depth = Depth(I0), !.before = I0.scope,
                                         !.after = I0.scope])
             ELSE I0
    IN
    CASE node.kind = "Grouping" -> execute(I, node.group)

      [] node.kind = "BinaryExpr" ->
            LET l == execute(I, node.left)
                r == execute(l.I, node.right)
            IN IF l.sig # "ok" THEN l
               ELSE IF r.sig # "ok" THEN r
               ELSE binaryOp(r.I, node.op, l.v, r.v)

      [] node.kind = "LogicalExpr" -> logicalExpr(I, node)

      [] node.kind = "UnaryExpr" ->
            LET r == execute(I, node.right)
            IN IF node.op \notin {"DASH", "BANG"} THEN runtimeErrf(I, "impossible unary")
               ELSE IF r.sig # "ok" THEN r
               ELSE IF node.op = "BANG" THEN Ok(r.I, Bool(~isTruthy(r.v)))
               ELSE IF mustBeNumbers(<<r.v>>)
               THEN runtimeErrf(r.I, mustBeNumbers_msg(node.op, <<r.v>>))
               ELSE Ok(r.I, FNeg(r.v))

      [] node.kind = "Literal" -> Ok(I, node.val)

      [] node.kind = "Variable" -> lookupVariable(I, node.name, node)

      [] node.kind = "Assign" -> assignExpr(I, node)

      [] node.kind = "Call" -> callExpr(I, node)

      [] node.kind = "GetExpr" -> getExpr(I, node)

      [] node.kind = "SetExpr" -> setExpr(I, node)

      [] node.kind = "ThisExpr" -> lookupVariable(I, node.name, node)

      [] node.kind = "SuperExpr" -> superExpr(I, node)

      [] node.kind = "PrintStmt" ->
            LET val == execute(I, node.expr)
            IN IF val.sig # "ok" THEN val
               ELSE Ok([val.I EXCEPT !.out = Append(@, format(val.I, val.v))], Nil)

      [] node.kind = "ExprStmt" ->
            LET val == execute(I, node.expr)
            IN IF val.sig # "ok" THEN val ELSE Ok(val.I, Nil)

      [] node.kind = "FuncStmt" -> funcStmt(I, node)

      [] node.kind = "VarStmt" ->
            LET val == IF node.init.kind # "nil" THEN execute(I, node.init) ELSE Ok(I, Nil)
            IN IF val.sig # "ok" THEN val
               ELSE Ok(Env_define(val.I, val.I.scope, node.name, val.v), Nil)

      [] node.kind = "BlockStmt" -> blockStmt(I, node)

      [] node.kind = "IfStmt" ->
            LET c == execute(I, node.cond)
                b == IF isTruthy(c.v) THEN execute(c.I, node.thenBranch)
                     ELSE IF node.elseBranch.kind # "nil" THEN execute(c.I, node.elseBranch)
                     ELSE Ok(c.I, Nil)
            IN IF c.sig # "ok" THEN c
               ELSE IF b.sig # "ok" THEN b
               ELSE Ok(b.I, Nil)

      [] node.kind = "WhileStmt" -> whileLoop(I, node)

      [] node.kind = "ReturnStmt" ->
            LET value == IF node.value.kind # "nil" THEN execute(I, node.value) ELSE Ok(I, Nil)
            IN IF value.sig # "ok" THEN value
               ELSE returnValue(Log(value.I, [BaseEv EXCEPT !.ev = "return",
                                                 !.kind = "ReturnStmt",
                                                 !.depth = Depth(I), !.sig = "ret",
                                                 !.before = value.I.scope,
                                                 !.after = value.I.scope,
                                                 !.val = value.v,
                                                 !.bare = node.value.kind = "nil"]),
                           value.v)

      [] node.kind = "ClassStmt" -> classStmt(I, node)

      [] OTHER -> Crash(I, "unknown node")

\* NewInterpreter: the global Env holds clock; scope starts at global.  wall
\* holds what the calls of time.Now().Unix() during the run will return.
NewInterpreter(wall) ==
    [out |-> <<>>, global |-> 1, scope |-> 1, locals |-> [x \in {} |-> 0],
     envs |-> <<[vars |-> [x \in {"clock"} |-> ClockRef], enclosing |-> NilPtr]>>,
     funs |-> <<>>, classes |-> <<>>, insts |-> <<>>,
     wall |-> wall, reads |-> 0, frames |-> <<>>, trace |-> <<>>]

(***************************************************************************)
(* Resolver                                                                *)
(***************************************************************************)
\* NewResolver; locals stands for r.i.locals, which Interpreter.resolve fills.
\* depths remembers len(r.scopes) at the moment a node was recorded, visits
\* the calls of resolveLocal in order: the node, len(r.scopes), and the
\* distance passed to Interpreter.resolve (-1 when the loop ends without).
NewResolver(locals) ==
    [scopes |-> <<>>, currentFunc |-> "funcNone", currentClass |-> "classNone",
     locals |-> locals, depths |-> [x \in {} |-> 0], visits |-> <<>>,
     sig |-> "ok", err |-> ""]

\* runtimeErrf raised by the resolver.
resolveErrf(R, msg) == [R EXCEPT !.sig = "err", !.err = msg]

\* Resolver.beginScope
beginScope(R) ==
    IF R.sig # "ok" THEN R
    ELSE [R EXCEPT !.scopes = Append(@, [x \in {} |-> FALSE])]

\* Resolver.endScope
endScope(R) ==
    IF R.sig # "ok" THEN R
    ELSE [R EXCEPT !.scopes = SubSeq(@, 1, Len(@) - 1)]

\* r.scopes[len(r.scopes)-1][name] = flag
setInnermost(R, name, flag) ==
    IF R.sig # "ok" THEN R
    ELSE [R EXCEPT !.scopes[Len(R.scopes)] = Put(@, name, flag)]

\* Resolver.declare
declare(R, name) ==
    IF R.sig # "ok" \/ Len(R.scopes) = 0 THEN R
    ELSE IF name \in DOMAIN R.scopes[Len(R.scopes)]
    THEN resolveErrf(R, "Already a variable with this name in this scope")
    ELSE setInnermost(R, name, FALSE)

\* Resolver.define
Resolver_define(R, name) ==
    IF R.sig # "ok" \/ Len(R.scopes) = 0 THEN R
    ELSE setInnermost(R, name, TRUE)

\* Interpreter.resolve
Interpreter_resolve(locals, id, depth) == Put(locals, id, depth)

\* One call of resolveLocal for the node id.
Visit(R, id, distance) == [id |-> id, depth |-> Len(R.scopes), distance |-> distance]

\* The loop of Resolver.resolveLocal; j is the Go index i plus one.
RECURSIVE resolveLocalLoop(_, _, _, _)
resolveLocalLoop(R, id, name, j) ==
    IF j < 1 THEN [R EXCEPT !.visits = Append(@, Visit(R, id, -1))]
    ELSE IF name \in DOMAIN R.scopes[j]
    THEN [R EXCEPT !.locals = Interpreter_resolve(@, id, Len(R.scopes) - j),
                   !.depths = Put(@, id, Len(R.scopes)),
                   !.visits = Append(@, Visit(R, id, Len(R.scopes) - j))]
    ELSE resolveLocalLoop(R, id, name, j - 1)

\* The loop of resolveLocal scanning the scope stack from the outermost
\* scope inwards.
RECURSIVE resolveLocalLoop_outermostFirst(_, _, _, _)
resolveLocalLoop_outermostFirst(R, id, name, j) ==
    IF j > Len(R.scopes) THEN [R EXCEPT !.visits = Append(@, Visit(R, id, -1))]
    ELSE IF name \in DOMAIN R.scopes[j]
    THEN [R EXCEPT !.locals = Interpreter_resolve(@, id, Len(R.scopes) - j),
                   !.depths = Put(@, id, Len(R.scopes)),
                   !.visits = Append(@, Visit(R, id, Len(R.scopes) - j))]
    ELSE resolveLocalLoop_outermostFirst(R, id, name, j + 1)

\* Resolver.resolveLocal with that loop.
resolveLocal_outermostFirst(R, id, name) ==
    IF R.sig # "ok" THEN R ELSE resolveLocalLoop_outermostFirst(R, id, name, 1)

\* Resolver.resolveLocal
resolveLocal(R, id, name) ==
    IF R.sig # "ok" THEN R ELSE resolveLocalLoop(R, id, name, Len(R.scopes))

RECURSIVE resolve(_, _), resolveAll(_, _, _), resolveParams(_, _, _),
          resolveFunction(_, _, _), resolveMethods(_, _, _)

\* for _, s := range ... { r.resolve(s) }
resolveAll(R, nodes, j) ==
    IF j > Len(nodes) \/ R.sig # "ok" THEN R
    ELSE resolveAll(resolve(R, nodes[j]), nodes, j + 1)

\* The parameter loop of resolveFunction.
resolveParams(R, params, j) ==
    IF j > Len(params) \/ R.sig # "ok" THEN R
    ELSE resolveParams(Resolver_define(declare(R, params[j]), params[j]), params, j + 1)

\* resolveFunction without the deferred restore of currentFunc.
resolveFunction_noRestore(R, stmt, kind) ==
    IF R.sig # "ok" THEN R
    ELSE endScope(resolveAll(resolveParams(beginScope([R EXCEPT !.currentFunc = kind]),
                                           stmt.params, 1),
                             stmt.body, 1))

\* Resolver.resolveFunction: the deferred restore of currentFunc runs on
\* every exit.
resolveFunction(R, stmt, kind) ==
    IF R.sig # "ok" THEN R
    ELSE LET enclosing == R.currentFunc
             R1 == beginScope([R EXCEPT !.currentFunc = kind])
             R2 == resolveParams(R1, stmt.params, 1)
             R3 == resolveAll(R2, stmt.body, 1)
             R4 == endScope(R3)
         IN [R4 EXCEPT !.currentFunc = enclosing]

\* The method loop of the ClassStmt case.
resolveMethods(R, methods, j) ==
    IF j > Len(methods) \/ R.sig # "ok" THEN R
    ELSE IF methods[j].kind # "FuncStmt"
    THEN [R EXCEPT !.sig = "crash", !.err = "interface conversion"]
    ELSE resolveMethods(
            resolveFunction(R, methods[j],
                            IF methods[j].name = "init" THEN "funcInit" ELSE "funcMethod"),
            methods, j + 1)

\* The ClassStmt case without the deferred restore of currentClass.
resolveClass_noRestore(R, v) ==
    LET hasSuper == v.super.kind # "nil"
        R1 == Resolver_define(declare([R EXCEPT !.currentClass = "classClass"], v.name),
                              v.name)
        R2 == IF ~hasSuper \/ R1.sig # "ok" THEN R1
              ELSE IF v.name = v.super.name
              THEN resolveErrf(R1, "A class can't inherit from itself.")
              ELSE setInnermost(
                      beginScope(resolve([R1 EXCEPT !.currentClass = "classSub"], v.super)),
                      "super", TRUE)
        R3 == setInnermost(beginScope(R2), "this", TRUE)
        R4 == resolveMethods(R3, v.methods, 1)
        R5 == endScope(R4)
    IN IF hasSuper THEN endScope(R5) ELSE R5

\* The ClassStmt case of Resolver.resolve.
resolveClass(R, v) ==
    LET enclosing == R.currentClass
        hasSuper == v.super.kind # "nil"
        R1 == Resolver_define(declare([R EXCEPT !.currentClass = "classClass"], v.name),
                              v.name)
        R2 == IF ~hasSuper \/ R1.sig # "ok" THEN R1
              ELSE IF v.name = v.super.name
              THEN resolveErrf(R1, "A class can't inherit from itself.")
              ELSE setInnermost(
                      beginScope(resolve([R1 EXCEPT !.currentClass = "classSub"], v.super)),
                      "super", TRUE)
        R3 == setInnermost(beginScope(R2), "this", TRUE)
        R4 == resolveMethods(R3, v.methods, 1)
        R5 == endScope(R4)
        R6 == IF hasSuper THEN endScope(R5) ELSE R5
    IN [R6 EXCEPT !.currentClass = enclosing]

\* Resolver.resolve: the AST visitor.
resolve(R, node) ==
    IF R.sig # "ok" THEN R
    ELSE
    CASE node.kind = "BlockStmt" -> endScope(resolveAll(beginScope(R), node.statements, 1))

      [] node.kind = "VarStmt" ->
            LET R1 == declare(R, node.name)
                R2 == IF node.init.kind # "nil" THEN resolve(R1, node.init) ELSE R1
            IN Resolver_define(R2, node.name)

      [] node.kind = "Variable" ->
            IF /\ Len(R.scopes) > 0
               /\ node.name \in DOMAIN R.scopes[Len(R.scopes)]
               /\ ~R.scopes[Len(R.scopes)][node.name]
            THEN resolveErrf(R, "Cannot read local variable in its own initializer.")
            ELSE resolveLocal(R, node.id, node.name)

      [] node.kind = "Assign" -> resolveLocal(resolve(R, node.val), node.id, node.name)

      [] node.kind = "FuncStmt" ->
            resolveFunction(Resolver_define(declare(R, node.name), node.name),
                            node, "funcFunc")

      [] node.kind = "Grouping" -> resolve(R, node.group)

      [] node.kind \in {"BinaryExpr", "LogicalExpr"} ->
            resolve(resolve(R, node.left), node.right)

      [] node.kind = "UnaryExpr" -> resolve(R, node.right)

      [] node.kind = "Literal" -> R

      [] node.kind = "Call" -> resolveAll(resolve(R, node.callee), node.args, 1)

      [] node.kind = "GetExpr" -> resolve(R, node.object)

      [] node.kind = "SetExpr" -> resolve(resolve(R, node.object), node.value)

      [] node.kind = "ThisExpr" ->
            IF R.currentClass = "classNone"
            THEN resolveErrf(R, "Can't use this outside a class.")
            ELSE resolveLocal(R, node.id, node.name)

      [] node.kind = "SuperExpr" ->
            IF R.currentClass = "classNone"
            THEN resolveErrf(R, "Can't use 'super' outside of class.")
            ELSE IF R.currentClass # "classSub"
            THEN resolveErrf(R, "Can't use 'super' in a class with no superclass.")
            ELSE resolveLocal(R, node.id, node.name)

      [] node.kind \in {"PrintStmt", "ExprStmt"} -> resolve(R, node.expr)

      [] node.kind = "IfStmt" ->
            LET R1 == resolve(resolve(R, node.cond), node.thenBranch)
            IN IF node.elseBranch.kind # "nil" THEN resolve(R1, node.elseBranch) ELSE R1

      [] node.kind = "WhileStmt" -> resolve(resolve(R, node.cond), node.body)

      [] node.kind = "ReturnStmt" ->
            IF R.currentFunc = "funcNone"
            THEN resolveErrf(R, "Can't return from top-level code")
            ELSE IF node.value.kind = "nil" THEN R
            ELSE IF R.currentFunc = "funcInit"
            THEN resolveErrf(R, "Cannot return a value from initializer.")
            ELSE resolve(R, node.value)

      [] node.kind = "ClassStmt" -> resolveClass(R, node)

      [] OTHER -> [R EXCEPT !.sig = "crash", !.err = "unknown node"]

(***************************************************************************)
(* Programs: the statement lists handed to Interpret.                      *)
(***************************************************************************)
V(id, name) == Variable(id, name)
N(x) == Literal(Num(x))
S(x) == Literal(Str(x))
True == Literal(Bool(TRUE))
False == Literal(Bool(FALSE))

\* testdata: countdown
Countdown(n) ==
    << parseFuncStmt("countdown", <<"n">>, <<
          WhileStmt(True, BlockStmt(<<
              PrintStmt(V(1, "n")),
              IfStmt(BinaryExpr("EQUAL_EQUAL", V(2, "n"), N(0)), ReturnStmt(NoNode), NoNode),
              ExprStmt(Assign(3, "n", BinaryExpr("DASH", V(4, "n"), N(1)))) >>)) >>),
       PrintStmt(V(5, "countdown")),
       ExprStmt(Call(V(6, "countdown"), <<N(n)>>)) >>

\* testdata: makeCounter
MakeCounter ==
    << parseFuncStmt("makeCounter", <<>>, <<
          VarStmt("i", N(0)),
          parseFuncStmt("count", <<>>, <<
              ExprStmt(Assign(1, "i", BinaryExpr("PLUS", V(2, "i"), N(1)))),
              ReturnStmt(V(3, "i")) >>),
          ReturnStmt(V(4, "count")) >>),
       VarStmt("counter", Call(V(5, "makeCounter"), <<>>)),
       PrintStmt(Call(V(6, "counter"), <<>>)),
       PrintStmt(Call(V(7, "counter"), <<>>)),
       PrintStmt(Call(V(8, "counter"), <<>>)) >>

\* testdata: class Foo
ClassFoo ==
    << ClassStmt("Foo", NoNode, <<
          parseFuncStmt("getter", <<>>, << ReturnStmt(S("\"foo\"")) >>),
          parseFuncStmt("invoke", <<>>, << PrintStmt(S("\"invoker!\"")) >>) >>),
       PrintStmt(V(1, "Foo")),
       VarStmt("foo", Call(V(2, "Foo"), <<>>)),
       PrintStmt(V(3, "foo")),
       ExprStmt(SetExpr(V(4, "foo"), "bar", N(1))),
       VarStmt("baz", BinaryExpr("PLUS", GetExpr(V(5, "foo"), "bar"), N(2))),
       PrintStmt(V(6, "baz")),
       ExprStmt(Call(GetExpr(V(7, "foo"), "invoke"), <<>>)),
       VarStmt("f", GetExpr(V(8, "foo"), "invoke")),
       ExprStmt(Call(V(9, "f"), <<>>)) >>

\* d nested blocks around a statement list.
RECURSIVE Wrap(_, _)
Wrap(stmts, d) == IF d = 0 THEN stmts ELSE <<BlockStmt(Wrap(stmts, d - 1))>>

Plus1(e) == BinaryExpr("PLUS", e, N(1))

\* How the body of f is left.
ExitModes == {"normal", "ret", "retnil", "err", "undef"}
ExitStmt(mode) ==
    CASE mode = "normal" -> PrintStmt(V(10, "n"))
      [] mode = "ret" -> ReturnStmt(Plus1(V(10, "n")))
      [] mode = "retnil" -> ReturnStmt(NoNode)
      [] mode = "err" -> PrintStmt(BinaryExpr("PLUS", V(10, "n"), S("\"x\"")))
      [] mode = "undef" -> PrintStmt(V(10, "zz"))

\* Where the leaving statement stands: directly, as the branch of an if, or
\* in the body of a while loop.
Wraps == {"plain", "if", "while"}
Wrapped(wrap, stmt) ==
    CASE wrap = "plain" -> <<stmt>>
      [] wrap = "if" ->
            <<IfStmt(BinaryExpr("EQUAL_EQUAL", V(11, "n"), V(12, "n")), stmt, NoNode)>>
      [] wrap = "while" ->
            <<WhileStmt(BinaryExpr("LESS", V(11, "n"), N(2)),
                        BlockStmt(<<stmt, ExprStmt(Assign(13, "n", Plus1(V(14, "n"))))>>))>>

\* var g = 10;
\* fun f(n) { {..d.. <leave> ..} print "after"; }
\* {..e.. print f(1); print "caller"; ..}
\* print g;
FunExit(d, e, mode, wrap) ==
    << VarStmt("g", N(10)),
       parseFuncStmt("f", <<"n">>,
                     Wrap(Wrapped(wrap, ExitStmt(mode)), d) \o <<PrintStmt(S("\"after\""))>>) >>
    \o Wrap(<< PrintStmt(Call(V(20, "f"), <<N(1)>>)), PrintStmt(S("\"caller\"")) >>, e)
    \o << PrintStmt(V(21, "g")) >>

\* fun inner(n) { {..d.. <leave> ..} print "after"; }
\* fun outer(n) { var r = inner(n); print "outer"; return r; print "dead"; }
\* print outer(1);
NestedCall(d, mode) ==
    << parseFuncStmt("inner", <<"n">>,
                     Wrap(<<ExitStmt(mode)>>, d) \o <<PrintStmt(S("\"after\""))>>),
       parseFuncStmt("outer", <<"n">>, <<
           VarStmt("r", Call(V(20, "inner"), <<V(21, "n")>>)),
           PrintStmt(S("\"outer\"")),
           ReturnStmt(V(22, "r")),
           PrintStmt(S("\"dead\"")) >>),
       PrintStmt(Call(V(23, "outer"), <<N(1)>>)) >>

\* makeCounter with two counters: n1 calls of c1, n2 calls of c2, and one
\* more call of c1.
RECURSIVE PrintCalls(_, _, _)
PrintCalls(name, base, n) ==
    IF n = 0 THEN <<>>
    ELSE PrintCalls(name, base, n - 1) \o <<PrintStmt(Call(V(base + n, name), <<>>))>>

Counters(n1, n2) ==
    << MakeCounter[1],
       VarStmt("c1", Call(V(10, "makeCounter"), <<>>)),
       VarStmt("c2", Call(V(11, "makeCounter"), <<>>)) >>
    \o PrintCalls("c1", 20, n1) \o PrintCalls("c2", 40, n2) \o PrintCalls("c1", 60, 1)

\* class A { init(x) { this.x = x; [return; print "dead";] }
\*           get() { return this.x; }  who() { return "A"; }
\*           fail() { { print this.x + "s"; } } }
ClassA(bare) ==
    ClassStmt("A", NoNode, <<
        parseFuncStmt("init", <<"x">>,
            << ExprStmt(SetExpr(ThisExpr(100), "x", V(101, "x"))) >>
            \o (IF bare THEN << ReturnStmt(NoNode), PrintStmt(S("\"dead\"")) >> ELSE <<>>)),
        parseFuncStmt("get", <<>>, << ReturnStmt(GetExpr(ThisExpr(102), "x")) >>),
        parseFuncStmt("who", <<>>, << ReturnStmt(S("\"A\"")) >>),
        parseFuncStmt("fail", <<>>, << BlockStmt(<<
            PrintStmt(BinaryExpr("PLUS", GetExpr(ThisExpr(103), "x"), S("\"s\""))) >>) >>) >>)

\* class B < A { [init(x) { this.x = x + 1; [if (true) return;] }]
\*               who() { return "B"; }  sup() { return super.who(); } }
ClassB(bare, ownInit) ==
    ClassStmt("B", V(110, "A"),
        (IF ownInit
         THEN << parseFuncStmt("init", <<"x">>,
                    << ExprStmt(SetExpr(ThisExpr(111), "x", Plus1(V(112, "x")))) >>
                    \o (IF bare THEN << IfStmt(True, ReturnStmt(NoNode), NoNode) >> ELSE <<>>)) >>
         ELSE <<>>)
        \o << parseFuncStmt("who", <<>>, << ReturnStmt(S("\"B\"")) >>),
              parseFuncStmt("sup", <<>>,
                            << ReturnStmt(Call(SuperExpr(113, "who"), <<>>)) >>) >>)

\* class C < B { }
ClassC == ClassStmt("C", V(120, "B"), <<>>)

\* class D { }
ClassD == ClassStmt("D", NoNode, <<>>)

\* The initializer of exactly one of A and B ends with a bare return.
ClassDecls(bare, ownInit) == << ClassA(bare), ClassB(~bare, ownInit), ClassC, ClassD >>

New(id, class, x) == Call(V(id, class), <<N(x)>>)
Invoke(id, obj, m) == Call(GetExpr(V(id, obj), m), <<>>)

Uses == 1..8
ClassUse(u) ==
    CASE u = 1 -> << VarStmt("o", New(1, "C", 1)),
                     PrintStmt(Invoke(2, "o", "get")),
                     PrintStmt(Invoke(3, "o", "who")),
                     PrintStmt(Invoke(4, "o", "sup")) >>
      [] u = 2 -> << VarStmt("o", New(1, "B", 2)),
                     VarStmt("m", GetExpr(V(2, "o"), "get")),
                     VarStmt("p", New(3, "A", 5)),
                     BlockStmt(<< VarStmt("o", V(4, "p")),
                                  PrintStmt(Call(V(5, "m"), <<>>)) >>) >>
      [] u = 3 -> << VarStmt("o", New(1, "B", 3)),
                     VarStmt("p", New(5, "A", 1)),
                     PrintStmt(BinaryExpr("EQUAL_EQUAL",
                                  Call(GetExpr(V(2, "o"), "init"), <<N(9)>>), V(3, "o"))),
                     PrintStmt(BinaryExpr("EQUAL_EQUAL",
                                  Call(GetExpr(V(6, "p"), "init"), <<N(2)>>), V(7, "p"))),
                     PrintStmt(GetExpr(V(4, "o"), "x")) >>
      [] u = 4 -> << VarStmt("o", New(1, "A", 4)),
                     ExprStmt(SetExpr(V(2, "o"), "who", N(5))),
                     PrintStmt(GetExpr(V(3, "o"), "who")),
                     PrintStmt(Invoke(4, "o", "get")),
                     PrintStmt(GetExpr(V(5, "o"), "nope")),
                     PrintStmt(S("\"unreached\"")) >>
      [] u = 5 -> << VarStmt("o", New(1, "C", 1)),
                     BlockStmt(<< PrintStmt(Invoke(3, "o", "who")) >>),
                     ExprStmt(Invoke(2, "o", "fail")),
                     PrintStmt(S("\"unreached\"")) >>
      [] u = 6 -> << VarStmt("o", New(1, "A", 1)),
                     VarStmt("q", New(2, "A", 2)),
                     VarStmt("m", GetExpr(V(3, "o"), "get")),
                     VarStmt("n", GetExpr(V(4, "q"), "get")),
                     PrintStmt(Call(V(5, "m"), <<>>)),
                     PrintStmt(Call(V(6, "n"), <<>>)),
                     ExprStmt(SetExpr(V(7, "o"), "x", N(7))),
                     PrintStmt(Call(V(8, "m"), <<>>)) >>
      [] u = 7 -> << VarStmt("c", New(6, "C", 2)),
                     VarStmt("o", Call(V(1, "D"), <<>>)),
                     PrintStmt(V(2, "o")),
                     ExprStmt(SetExpr(V(3, "o"), "y", N(1))),
                     PrintStmt(GetExpr(V(4, "o"), "y")),
                     PrintStmt(GetExpr(V(5, "o"), "x")) >>
      [] u = 8 -> << VarStmt("o", New(1, "A", 1)),
                     ExprStmt(SetExpr(V(2, "o"), "get", GetExpr(New(3, "B", 8), "get"))),
                     PrintStmt(Invoke(4, "o", "get")) >>

\* The class declarations and one use of them, inside d nested blocks.
ClassProg(bare, ownInit, d, u) == Wrap(ClassDecls(bare, ownInit) \o ClassUse(u), d)

\* Programs about names the resolver leaves to the global environment.
Scopes == 1..6
ScopeProg(j) ==
    CASE j = 1 -> << PrintStmt(V(1, "zz")) >>
      [] j = 2 -> << ExprStmt(Assign(1, "zz", N(1))) >>
      [] j = 3 -> << BlockStmt(<<
                        parseFuncStmt("f", <<>>, << ExprStmt(Assign(1, "a", N(2))) >>),
                        VarStmt("a", N(1)),
                        ExprStmt(Call(V(2, "f"), <<>>)),
                        PrintStmt(V(3, "a")) >>) >>
      [] j = 4 -> << parseFuncStmt("f", <<>>, << ReturnStmt(V(1, "a")) >>),
                     VarStmt("a", N(1)),
                     PrintStmt(Call(V(2, "f"), <<>>)),
                     ExprStmt(Assign(3, "a", N(2))),
                     PrintStmt(Call(V(4, "f"), <<>>)) >>
      [] j = 5 -> << VarStmt("a", N(1)),
                     BlockStmt(<< VarStmt("a", N(2)),
                                  BlockStmt(<< PrintStmt(V(1, "a")),
                                               ExprStmt(Assign(2, "a", N(3))) >>),
                                  PrintStmt(V(3, "a")) >>),
                     PrintStmt(V(4, "a")) >>
      [] j = 6 -> << BlockStmt(<<
                        parseFuncStmt("f", <<>>, << PrintStmt(V(1, "a")) >>),
                        VarStmt("a", N(1)),
                        ExprStmt(Call(V(2, "f"), <<>>)) >>) >>

\* class A { who() { return "A"; } }
\* class B < A { who() { return "B"; }  sup() { return super.who(); }
\*               miss() { return super.nope(); }  me() { return this; } }
\* class C < B { who() { return "C"; } }
SuperDecls ==
    << ClassStmt("A", NoNode, <<
          parseFuncStmt("who", <<>>, << ReturnStmt(S("\"A\"")) >>) >>),
       ClassStmt("B", V(200, "A"), <<
          parseFuncStmt("who", <<>>, << ReturnStmt(S("\"B\"")) >>),
          parseFuncStmt("sup", <<>>, << ReturnStmt(Call(SuperExpr(201, "who"), <<>>)) >>),
          parseFuncStmt("miss", <<>>, << ReturnStmt(Call(SuperExpr(202, "nope"), <<>>)) >>),
          parseFuncStmt("me", <<>>, << ReturnStmt(ThisExpr(203)) >>) >>),
       ClassStmt("C", V(204, "B"), <<
          parseFuncStmt("who", <<>>, << ReturnStmt(S("\"C\"")) >>) >>) >>

\* class A{say(){print "a";}} class B<A{say(){super.say(); print "b";}}
\* B().say();
SuperSay ==
    << ClassStmt("A", NoNode, <<
          parseFuncStmt("say", <<>>, << PrintStmt(S("\"a\"")) >>) >>),
       ClassStmt("B", V(210, "A"), <<
          parseFuncStmt("say", <<>>, << ExprStmt(Call(SuperExpr(211, "say"), <<>>)),
                                        PrintStmt(S("\"b\"")) >>) >>),
       ExprStmt(Call(GetExpr(Call(V(212, "B"), <<>>), "say"), <<>>)) >>

SuperUses == 1..4
SuperUse(u, class) ==
    CASE u = 1 -> << VarStmt("o", Call(V(1, class), <<>>)),
                     PrintStmt(Invoke(2, "o", "sup")),
                     PrintStmt(Invoke(3, "o", "who")) >>
      [] u = 2 -> << VarStmt("o", Call(V(1, class), <<>>)),
                     PrintStmt(BinaryExpr("EQUAL_EQUAL", Invoke(2, "o", "me"), V(3, "o"))) >>
      [] u = 3 -> << VarStmt("o", Call(V(1, class), <<>>)),
                     PrintStmt(Invoke(2, "o", "sup")),
                     PrintStmt(Invoke(3, "o", "miss")),
                     PrintStmt(S("\"unreached\"")) >>
      [] u = 4 -> << VarStmt("o", Call(V(1, class), <<>>)),
                     VarStmt("m", GetExpr(V(2, "o"), "sup")),
                     VarStmt("p", Call(V(3, "A"), <<>>)),
                     PrintStmt(Call(V(4, "m"), <<>>)) >>

\* The three classes and one use of them on an instance of class, inside d
\* nested blocks.
SuperProg(d, u, class) == Wrap(SuperDecls \o SuperUse(u, class), d)

\* class Base{} class Outer<Base{ m(){ class S{foo(){return this;}}
\* class D<S{} print D().foo()==this; } } Outer().m();
\* S has no superclass and is declared where the super of Outer is visible.
NestedDecls ==
    << ClassStmt("Base", NoNode, <<>>),
       ClassStmt("Outer", V(220, "Base"), <<
          parseFuncStmt("m", <<>>, <<
             ClassStmt("S", NoNode, <<
                parseFuncStmt("foo", <<>>, << ReturnStmt(ThisExpr(221)) >>) >>),
             ClassStmt("D", V(222, "S"), <<>>),
             PrintStmt(BinaryExpr("EQUAL_EQUAL",
                                  Call(GetExpr(Call(V(223, "D"), <<>>), "foo"), <<>>),
                                  ThisExpr(224))) >>) >>),
       ExprStmt(Call(GetExpr(Call(V(225, "Outer"), <<>>), "m"), <<>>)) >>

\* The classes declared inside a method, then the three classes and a use of
\* them, inside d nested blocks.
NestedSuper(d) == Wrap(NestedDecls \o SuperDecls \o SuperUse(1, "C"), d)

\* Statements the resolver rejects, and the message of each.
StaticErrs == 1..8
StaticErr(j) ==
    CASE j = 1 -> ReturnStmt(N(1))
      [] j = 2 -> ClassStmt("A", V(301, "A"), <<>>)
      [] j = 3 -> PrintStmt(ThisExpr(301))
      [] j = 4 -> PrintStmt(SuperExpr(301, "x"))
      [] j = 5 -> ClassStmt("A", NoNode, <<
                     parseFuncStmt("m", <<>>,
                         << ReturnStmt(Call(SuperExpr(301, "m"), <<>>)) >>) >>)
      [] j = 6 -> BlockStmt(<< PrintStmt(S("\"block\"")), VarStmt("a", V(301, "a")) >>)
      [] j = 7 -> BlockStmt(<< VarStmt("b", N(1)), PrintStmt(V(301, "b")),
                               VarStmt("b", N(2)) >>)
      [] j = 8 -> ClassStmt("A", NoNode, <<
                     parseFuncStmt("init", <<>>, << ReturnStmt(N(1)) >>) >>)
StaticMsg(j) ==
    CASE j = 1 -> "Can't return from top-level code"
      [] j = 2 -> "A class can't inherit from itself."
      [] j = 3 -> "Can't use this outside a class."
      [] j = 4 -> "Can't use 'super' outside of class."
      [] j = 5 -> "Can't use 'super' in a class with no superclass."
      [] j = 6 -> "Cannot read local variable in its own initializer."
      [] j = 7 -> "Already a variable with this name in this scope"
      [] j = 8 -> "Cannot return a value from initializer."

\* [var a = 1; [print a;]] <rejected statement> print "end";
StaticPrefix == << VarStmt("a", N(1)), PrintStmt(V(300, "a")) >>
StaticProg(j, n) ==
    SubSeq(StaticPrefix, 1, n) \o << StaticErr(j), PrintStmt(S("\"end\"")) >>
StaticProgs == {StaticProg(j, n) : j \in StaticErrs, n \in 0..Len(StaticPrefix)}

\* Statements that raise a runtime error, and the message of each.
RunErrs == 1..5
RunErr(j) ==
    CASE j = 1 -> PrintStmt(V(401, "zz"))
      [] j = 2 -> VarStmt("b", BinaryExpr("PLUS", N(1), S("\"x\"")))
      [] j = 3 -> ExprStmt(Call(S("\"str\""), <<>>))
      [] j = 4 -> ExprStmt(Call(V(401, "clock"), <<N(1)>>))
      [] j = 5 -> BlockStmt(<< VarStmt("c", N(2)), PrintStmt(V(401, "c")),
                               PrintStmt(UnaryExpr("DASH", S("\"s\""))) >>)
RunMsg(j) ==
    CASE j = 1 -> "undefined \"zz\""
      [] j = 2 -> "\"+\" requires number arguments: string"
      [] j = 3 -> "Not callable string"
      [] j = 4 -> "Expected 0 arguments but got 1"
      [] j = 5 -> "\"-\" requires number arguments: string"

\* [var a = 1; [print a;]] <failing statement> var z = 9; print "end";
RunPrefix == << VarStmt("a", N(1)), PrintStmt(V(400, "a")) >>
RunSuffix == << VarStmt("z", N(9)), PrintStmt(S("\"end\"")) >>
RunProg(j, n) == SubSeq(RunPrefix, 1, n) \o << RunErr(j) >> \o RunSuffix

\* var x = "unset"; var y = "unset";
\* print (x = va) op (y = vb); print x; print y;
LogicOps == {"OR", "AND"}
LogicVals == {Nil, Bool(FALSE), Bool(TRUE), Num(0), Str("\"\""), Str("\"s\"")}
LogicProg(op, va, vb) ==
    << VarStmt("x", S("\"unset\"")),
       VarStmt("y", S("\"unset\"")),
       PrintStmt(LogicalExpr(op, Assign(1, "x", Literal(va)), Assign(2, "y", Literal(vb)))),
       PrintStmt(V(3, "x")),
       PrintStmt(V(4, "y")) >>

\* var a = 0; var n = 0; var b = 0;
\* fun rhs() { n = n + 1; return 123; }
\* print a = rhs(); print a; print n;
\* print a = b = 5; print a; print b;
AssignProg(d) ==
    Wrap(<< VarStmt("a", N(0)), VarStmt("n", N(0)), VarStmt("b", N(0)),
            parseFuncStmt("rhs", <<>>, << ExprStmt(Assign(1, "n", Plus1(V(2, "n")))),
                                          ReturnStmt(N(123)) >>),
            PrintStmt(Assign(3, "a", Call(V(4, "rhs"), <<>>))),
            PrintStmt(V(5, "a")),
            PrintStmt(V(6, "n")),
            PrintStmt(Assign(7, "a", Assign(8, "b", N(5)))),
            PrintStmt(V(9, "a")),
            PrintStmt(V(10, "b")) >>, d)

\* var a = 1; print a = 123;
PrintAssign == << VarStmt("a", N(1)), PrintStmt(Assign(1, "a", N(123))) >>

\* fun t(x) { print x; return x; }
\* fun f(a, b) { print "body"; return a + b; }
\* fun g() { print "callee"; return f; }
\* class A { init(x) { print "init"; } }
\* class D { }
CallDecls ==
    << parseFuncStmt("t", <<"x">>, << PrintStmt(V(500, "x")), ReturnStmt(V(501, "x")) >>),
       parseFuncStmt("f", <<"a", "b">>,
                     << PrintStmt(S("\"body\"")),
                        ReturnStmt(BinaryExpr("PLUS", V(502, "a"), V(503, "b"))) >>),
       parseFuncStmt("g", <<>>, << PrintStmt(S("\"callee\"")), ReturnStmt(V(504, "f")) >>),
       ClassStmt("A", NoNode, <<
          parseFuncStmt("init", <<"x">>, << PrintStmt(S("\"init\"")) >>) >>),
       ClassStmt("D", NoNode, <<>>) >>

\* t(n), an argument that prints n when it is evaluated.
Arg(id, n) == Call(V(id, "t"), <<N(n)>>)

CallUses == 1..11
CallUse(j) ==
    CASE j = 1 -> PrintStmt(Call(Call(V(1, "g"), <<>>), <<Arg(2, 1), Arg(3, 2)>>))
      [] j = 2 -> ExprStmt(Call(S("\"str\""), <<Arg(2, 1), Arg(3, 2)>>))
      [] j = 3 -> ExprStmt(Call(V(1, "f"), <<Arg(2, 1)>>))
      [] j = 4 -> ExprStmt(Call(V(1, "f"), <<Arg(2, 1), Arg(3, 2), Arg(4, 3)>>))
      [] j = 5 -> ExprStmt(Call(V(1, "A"), <<>>))
      [] j = 6 -> ExprStmt(Call(V(1, "A"), <<Arg(2, 1), Arg(3, 2)>>))
      [] j = 7 -> ExprStmt(Call(V(1, "D"), <<Arg(2, 1)>>))
      [] j = 8 -> ExprStmt(Call(V(1, "clock"), <<Arg(2, 1)>>))
      [] j = 9 -> ExprStmt(Call(Literal(Nil), <<Arg(2, 1)>>))
      [] j = 10 -> ExprStmt(Call(Call(V(1, "D"), <<>>), <<Arg(2, 1)>>))
      [] j = 11 -> PrintStmt(Call(V(1, "A"), <<Arg(2, 1)>>))

\* The declarations, one call, and print "end", inside d nested blocks.
CallProg(d, j) == Wrap(CallDecls \o << CallUse(j), PrintStmt(S("\"end\"")) >>, d)

\* The declarations, print g()(t(1), t(2)); "str"(t(1), t(2)); print "end";
CallBoth ==
    CallDecls \o << CallUse(1), ExprStmt(Call(S("\"str\""), <<Arg(5, 1), Arg(6, 2)>>)),
                   PrintStmt(S("\"end\"")) >>

\* Pairs of operands that are not both numbers, and the statement the
\* binary expression stands in.
Mismatches ==
    { <<Num(1), Str("\"x\"")>>, <<Str("\"x\""), Num(1)>>, <<Str("\"x\""), Str("\"y\"")>>,
      <<Nil, Num(1)>>, <<Num(1), Bool(TRUE)>> }
Contexts == {"var", "assign", "print"}
InContext(ctx, e) ==
    CASE ctx = "var" -> VarStmt("v", e)
      [] ctx = "assign" -> ExprStmt(Assign(1, "a", e))
      [] ctx = "print" -> PrintStmt(e)

\* var l = 0; var r = 0; var a = 0;
\* var v = (l = L) op (r = R);  or  a = (l = L) op (r = R);  or  print ...;
\* print "end";
TypeProg(op, m, ctx) ==
    << VarStmt("l", N(0)), VarStmt("r", N(0)), VarStmt("a", N(0)),
       InContext(ctx, BinaryExpr(op, Assign(2, "l", Literal(m[1])),
                                     Assign(3, "r", Literal(m[2])))),
       PrintStmt(S("\"end\"")) >>

\* The clauses of five for statements, as parseForStmt receives them.
ForUses == 1..6
Less2(id) == BinaryExpr("LESS", V(id, "i"), N(2))
Incr(id) == Assign(id, "i", Plus1(V(id + 1, "i")))
ForInit(j) ==
    CASE j \in {1, 3, 6} -> VarStmt("i", N(0))
      [] j = 2 -> NoNode
      [] j = 4 -> ExprStmt(Assign(600, "i", N(0)))
      [] j = 5 -> ExprStmt(Assign(600, "c", Plus1(V(601, "c"))))
ForCond(j) ==
    CASE j \in {1, 2, 4} -> Less2(602)
      [] j = 3 -> NoNode
      [] j = 5 -> LogicalExpr("OR",
                     BinaryExpr("LESS", Grouping(Assign(602, "n", Plus1(V(603, "n")))),
                                        N(3)),
                     BinaryExpr("EQUAL_EQUAL", V(604, "n"), N(4)))
      [] j = 6 -> BinaryExpr("LESS", Grouping(Assign(602, "n", N(5))), N(3))
ForIncr(j) == IF j = 5 THEN NoNode ELSE Incr(605)
ForBody(j) ==
    CASE j \in {1, 2, 4} -> PrintStmt(V(607, "i"))
      [] j = 3 -> BlockStmt(<< IfStmt(BinaryExpr("EQUAL_EQUAL", V(607, "i"), N(2)),
                                     ReturnStmt(V(608, "i")), NoNode),
                              PrintStmt(V(609, "i")) >>)
      [] j = 5 -> PrintStmt(S("\"body\""))
      [] j = 6 -> PrintStmt(V(607, "i"))
ForStmt(j) == parseForStmt(ForInit(j), ForCond(j), ForIncr(j), ForBody(j))

\* 1: for (var i = 0; i < 2; i = i + 1) print i;
\* 2: var i = 0; for (; i < 2; i = i + 1) print i;
\* 3: fun f() { for (var i = 0;; i = i + 1) { if (i == 2) return i; print i; } }
\*    print f();
\* 4: var i = 9; for (i = 0; i < 2; i = i + 1) print i;
\* 5: var n = 0; var c = 0;
\*    for (c = c + 1; (n = n + 1) < 3 or n == 4;) print "body";
\*    print c;
\* 6: var n = 10;
\*    fun f() { var n = 0; for (var i = 0; (n = 5) < 3; i = i + 1) print i; print n; }
\*    f(); print n;
ForProg(j) ==
    CASE j = 1 -> << ForStmt(1) >>
      [] j = 2 -> << VarStmt("i", N(0)), ForStmt(2) >>
      [] j = 3 -> << parseFuncStmt("f", <<>>, << ForStmt(3) >>),
                     PrintStmt(Call(V(610, "f"), <<>>)) >>
      [] j = 4 -> << VarStmt("i", N(9)), ForStmt(4) >>
      [] j = 5 -> << VarStmt("n", N(0)), VarStmt("c", N(0)), ForStmt(5),
                     PrintStmt(V(610, "c")) >>
      [] j = 6 -> << VarStmt("n", N(10)),
                     parseFuncStmt("f", <<>>, << VarStmt("n", N(0)), ForStmt(6),
                                                 PrintStmt(V(610, "n")) >>),
                     ExprStmt(Call(V(611, "f"), <<>>)), PrintStmt(V(612, "n")) >>

\* 1: print clock() - clock();
\* 2: print clock() < 1;
\* 3: var t = clock(); print t + 1;
\* 4: var t = clock(); print t;
\* 5: var a = clock(); var b = clock(); var c = clock(); print b == c;
ClockUses == 1..5
ClockCall(id) == Call(V(id, "clock"), <<>>)
ClockProg(j) ==
    CASE j = 1 -> << PrintStmt(BinaryExpr("DASH", ClockCall(701), ClockCall(702))) >>
      [] j = 2 -> << PrintStmt(BinaryExpr("LESS", ClockCall(701), N(1))) >>
      [] j = 3 -> << VarStmt("t", ClockCall(701)), PrintStmt(Plus1(V(702, "t"))) >>
      [] j = 4 -> << VarStmt("t", ClockCall(701)), PrintStmt(V(702, "t")) >>
      [] j = 5 -> << VarStmt("a", ClockCall(701)), VarStmt("b", ClockCall(702)),
                     VarStmt("c", ClockCall(703)),
                     PrintStmt(BinaryExpr("EQUAL_EQUAL", V(704, "b"), V(705, "c"))) >>

\* fun showA() { print a; }  fun setA() { a = "set"; }
\* showA(); var a = "block"; showA(); setA(); print a; showA();
ShowBody ==
    << parseFuncStmt("showA", <<>>, << PrintStmt(V(751, "a")) >>),
       parseFuncStmt("setA", <<>>, << ExprStmt(Assign(752, "a", S("\"set\""))) >>),
       ExprStmt(Call(V(753, "showA"), <<>>)),
       VarStmt("a", S("\"block\"")),
       ExprStmt(Call(V(754, "showA"), <<>>)),
       ExprStmt(Call(V(755, "setA"), <<>>)),
       PrintStmt(V(756, "a")),
       ExprStmt(Call(V(757, "showA"), <<>>)) >>

\* var a = "outer"; { ShowBody } print a;
\* with the outer a global, or local to a block inside d further blocks.
ShowProg(global, d) ==
    IF global
    THEN << VarStmt("a", S("\"outer\"")), BlockStmt(ShowBody), PrintStmt(V(758, "a")) >>
    ELSE Wrap(<< BlockStmt(<< VarStmt("a", S("\"outer\"")), BlockStmt(ShowBody),
                              PrintStmt(V(758, "a")) >>) >>, d)

\* Functions whose body declares a variable next to the parameter a.
\* 1: fun f(a) { var a = 1; print a; } f(2);
\* 2: fun f(a) { var b = 1; print a + b; } f(2);
\* 3: fun f(a) { var a = a + 1; print a; } f(2);
ParamUses == 1..3
ParamProg(j) ==
    << parseFuncStmt("f", <<"a">>,
          CASE j = 1 -> << VarStmt("a", N(1)), PrintStmt(V(771, "a")) >>
            [] j = 2 -> << VarStmt("b", N(1)),
                           PrintStmt(BinaryExpr("PLUS", V(771, "a"), V(772, "b"))) >>
            [] j = 3 -> << VarStmt("a", BinaryExpr("PLUS", V(772, "a"), N(1))),
                           PrintStmt(V(771, "a")) >>),
       ExprStmt(Call(V(773, "f"), <<N(2)>>)) >>

Programs ==
    {Countdown(n) : n \in 0..MaxArg} \cup {MakeCounter, ClassFoo}
    \cup {FunExit(d, e, mode, wrap) :
            d \in 0..MaxNest, e \in 0..MaxNest, mode \in ExitModes, wrap \in Wraps}
    \cup {NestedCall(d, mode) : d \in 0..MaxNest, mode \in ExitModes}
    \cup {Counters(n1, n2) : n1 \in 0..MaxArg, n2 \in 0..MaxArg}
    \cup {ClassProg(bare, ownInit, d, u) :
            bare \in BOOLEAN, ownInit \in BOOLEAN, d \in 0..MaxNest, u \in Uses}
    \cup {ScopeProg(j) : j \in Scopes}
    \cup {SuperProg(d, u, class) : d \in 0..MaxNest, u \in SuperUses, class \in {"B", "C"}}
    \cup {SuperSay} \cup {NestedSuper(d) : d \in 0..MaxNest}
    \cup StaticProgs
    \cup {RunProg(j, n) : j \in RunErrs, n \in 0..Len(RunPrefix)}
    \cup {LogicProg(op, va, vb) : op \in LogicOps, va \in LogicVals, vb \in LogicVals}
    \cup {AssignProg(d) : d \in 0..MaxNest} \cup {PrintAssign}
    \cup {CallProg(d, j) : d \in 0..MaxNest, j \in CallUses} \cup {CallBoth}
    \cup {TypeProg(op, m, ctx) :
            op \in ArithOps \cup CompareOps, m \in Mismatches, ctx \in Contexts}
    \cup {ForProg(j) : j \in ForUses}
    \cup {ClockProg(j) : j \in ClockUses}
    \cup {ShowProg(g, d) : g \in BOOLEAN, d \in 0..MaxNest}
    \cup {ParamProg(j) : j \in ParamUses}

(***************************************************************************)
(* Interpreter.Interpret as a process: the resolver loop, then the         *)
(* evaluation loop, one top-level statement per step.                      *)
(***************************************************************************)
NoIO == [op |-> "none"]

\* The readings of the wall clock during a run: seconds of the present, each
\* reading earlier than, equal to or later than the one before (the wall
\* clock can be set back).
ClockTimes == {1790000000, 1790000001}
MaxReads == 3
WallClocks == [1..MaxReads -> ClockTimes]

Init ==
    /\ prog \in Programs
    /\ pc = "resolve"
    /\ k = 1
    /\ interp \in {NewInterpreter(w) : w \in WallClocks}
    /\ rslv = NewResolver(interp.locals)
    /\ err = ""
    /\ fin = NoIO
    /\ fout = NoIO

\* The deferred function of Interpret recovering per statement: after a
\* runtimeError panic the loop goes on with the next statement.
Interpret_recoverEach(loop, r) ==
    /\ pc' = CASE r.sig \in {"ok", "err"} -> loop
               [] r.sig = "outside" -> "outside"
               [] OTHER -> "crashed"
    /\ k' = IF r.sig \in {"ok", "err"} THEN k + 1 ELSE k
    /\ err' = CASE r.sig = "ok" -> err
                [] r.sig = "err" -> "RUNTIME ERROR: " \o r.err
                [] r.sig = "ret" -> "panic: returnValue"
                [] r.sig = "outside" -> "no value of the model: " \o r.err
                [] OTHER -> "panic: " \o r.err

\* The deferred function of Interpret: a runtimeError panic becomes the error
\* Interpret returns, any other panic goes on; without a panic the loop named
\* by loop goes to its next statement.
Interpret_recover(loop, r) ==
    /\ pc' = CASE r.sig = "ok" -> loop
               [] r.sig = "err" -> "done"
               [] r.sig = "outside" -> "outside"
               [] OTHER -> "crashed"
    /\ k' = IF r.sig = "ok" THEN k + 1 ELSE k
    /\ err' = CASE r.sig = "ok" -> ""
                [] r.sig = "err" -> "RUNTIME ERROR: " \o r.err
                [] r.sig = "ret" -> "panic: returnValue"
                [] r.sig = "outside" -> "no value of the model: " \o r.err
                [] OTHER -> "panic: " \o r.err

\* Interpreter.EvalAST: r is the outcome of i.execute(s).
EvalAST(r) ==
    /\ interp' = r.I
    /\ Interpret_recover("eval", r)

\* Interpret with one loop that resolves a statement and evaluates it
\* before it resolves the next one.
ResolveStmt_thenEval ==
    /\ pc = "resolve"
    /\ k <= Len(prog)
    /\ rslv' = resolve(rslv, prog[k])
    /\ IF rslv'.sig = "ok"
       THEN /\ interp' = execute([interp EXCEPT !.locals = rslv'.locals], prog[k]).I
            /\ Interpret_recover("resolve",
                    execute([interp EXCEPT !.locals = rslv'.locals], prog[k]))
       ELSE /\ interp' = [interp EXCEPT !.locals = rslv'.locals]
            /\ Interpret_recover("resolve", rslv')
    /\ UNCHANGED <<prog, fin, fout>>

\* r.resolve(s) of the first loop; a runtimeError panic is recovered by the
\* deferred function of Interpret and becomes its error.
ResolveStmt ==
    /\ pc = "resolve"
    /\ k <= Len(prog)
    /\ Interpret_recover("resolve", resolve(rslv, prog[k]))
    /\ rslv' = resolve(rslv, prog[k])
    /\ interp' = [interp EXCEPT !.locals = rslv'.locals]
    /\ UNCHANGED <<prog, fin, fout>>

\* The first loop is over: the second loop starts at the first statement.
StartEval ==
    /\ pc = "resolve"
    /\ k > Len(prog)
    /\ pc' = "eval"
    /\ k' = 1
    /\ UNCHANGED <<prog, rslv, interp, err, fin, fout>>

\* i.EvalAST(s) of the second loop; the history notes which statement of
\* the program starts.
EvalStmt ==
    /\ pc = "eval"
    /\ k <= Len(prog)
    /\ EvalAST(execute(Log(interp, [BaseEv EXCEPT !.ev = "top", !.kind = prog[k].kind,
                                                  !.id = k, !.before = interp.scope,
                                                  !.after = interp.scope]),
                       prog[k]))
    /\ UNCHANGED <<prog, rslv, fin, fout>>

\* return nil
Return ==
    /\ pc = "eval"
    /\ k > Len(prog)
    /\ pc' = "done"
    /\ err' = ""
    /\ UNCHANGED <<prog, k, rslv, interp, fin, fout>>

Next == ResolveStmt \/ StartEval \/ EvalStmt \/ Return

Spec == Init /\ [][Next]_vars

(***************************************************************************)
(* Properties                                                              *)
(***************************************************************************)
T == interp.trace
Events(ev) == {j \in 1..Len(T) : T[j].ev = ev}
Exits(kind) == {j \in Events("exit") : T[j].kind = kind}

\* C1: after a block statement, a user-function or bound-method call, or a
\* class declaration with a superclass, Interpreter.scope is the Env it was
\* before entry, whether the construct completed, raised a runtime error or
\* was left by a return unwind.
C1_ScopeRestored ==
    \A j \in Events("exit") :
        /\ T[j].kind \in {"block", "call", "class"}
        /\ T[j].after = T[j].before

\* A run that left a block by a return unwind and one by a runtime error,
\* a call by a runtime error and one by a caught return, and declared a
\* class with a superclass.
C1_Witness ==
    /\ \E j \in Exits("block") : T[j].sig = "ret"
    /\ \E j \in Exits("block") : T[j].sig = "err"
    /\ \E j \in Exits("block") : T[j].sig = "ok"
    /\ \E j \in Exits("call") : T[j].sig = "err"
    /\ \E j \in Exits("call") : T[j].sig = "ok" /\ T[j].body = "ret"
    /\ \E j \in Exits("class") : T[j].sig = "ok"
    /\ pc = "done"

\* The Env a function closes over, and whether it is a bound method (bind
\* made its closure, which holds this).
ClosureOf(f) == interp.envs[interp.funs[f].closure]
IsBound(f) == "this" \in DOMAIN ClosureOf(f).vars

\* The return events of the history, and the exits of the calls of functions
\* that are not initializers (LoxFunction.isInitializer).
Returns == Events("return")
PlainCalls == {j \in Exits("call") : ~interp.funs[T[j].fn].isInitializer}

\* The exits of the calls of initializers (methods declared under the name
\* init).
InitializerCalls == Exits("call") \ PlainCalls

\* C2 as stated: the call that a return ends yields the carried value, nil
\* for a bare return, and a call whose body completes without return yields
\* nil, whatever the function is.
C2_Original ==
    /\ \A i \in Returns :
        \E j \in (i + 1)..Len(T) :
            /\ j \in Exits("call")
            /\ T[j].depth = T[i].depth
            /\ T[j].body = "ret"
            /\ T[j].sig = "ok"
            /\ T[j].val = T[i].val
            /\ \A m \in (i + 1)..(j - 1) :
                  m \in Exits("block") /\ T[m].sig = "ret" /\ T[m].depth = T[i].depth
    /\ \A j \in Exits("call") : T[j].body = "ok" => T[j].sig = "ok" /\ T[j].val = Nil

\* C2: a return statement executed anywhere inside a function body ends
\* exactly the innermost active call: between the return and the exit of the
\* call of the same depth only enclosing blocks are left (no statement
\* starts), the call catches the unwind, and no unwind leaves a call or
\* Interpret. The call of a function that is not an initializer yields the
\* carried value (nil for a bare return), and nil when its body completes
\* without return. The call of an initializer yields in both cases the
\* instance its closure binds as this: the nil of its bare return is dropped.
C2_ReturnEndsInnermostCall ==
    /\ err # "panic: returnValue"
    /\ \A i \in Returns :
        /\ T[i].depth >= 1
        /\ T[i].bare => T[i].val = Nil
        /\ \E j \in (i + 1)..Len(T) :
            /\ j \in Exits("call")
            /\ T[j].depth = T[i].depth
            /\ T[j].body = "ret"
            /\ T[j].sig = "ok"
            /\ j \in PlainCalls => T[j].val = T[i].val
            /\ j \in InitializerCalls =>
                  /\ T[i].val = Nil
                  /\ T[j].val = ClosureOf(T[j].fn).vars["this"]
                  /\ T[j].val # T[i].val
            /\ \A m \in (i + 1)..(j - 1) :
                  m \in Exits("block") /\ T[m].sig = "ret" /\ T[m].depth = T[i].depth
    /\ \A j \in Exits("call") : T[j].sig # "ret"
    /\ \A j \in PlainCalls : T[j].body = "ok" => T[j].sig = "ok" /\ T[j].val = Nil
    /\ \A j \in InitializerCalls :
          T[j].body = "ok" => T[j].sig = "ok" /\ T[j].val = ClosureOf(T[j].fn).vars["this"]
    /\ \A d \in 0..MaxNest, e \in 0..MaxNest, wrap \in Wraps :
        /\ (pc = "done" /\ prog = FunExit(d, e, "ret", wrap))
              => interp.out = <<"2", "\"caller\"", "10">>
        /\ (pc = "done" /\ prog = FunExit(d, e, "retnil", wrap))
              => interp.out = <<"<nil>", "\"caller\"", "10">>
        /\ (pc = "done" /\ prog = FunExit(d, e, "normal", wrap))
              => interp.out = <<"1", "\"after\"", "<nil>", "\"caller\"", "10">>

\* A finished run in which a call nested in another call returned a value
\* from inside a block: the block is left first, then the inner call yields
\* the value, and the outer call later returns as well.
C2_Witness ==
    /\ pc = "done"
    /\ \E i \in Returns, j \in Exits("call") :
        /\ T[i].depth = 2
        /\ j > i + 1
        /\ i + 1 \in Exits("block")
        /\ T[j].depth = 2 /\ T[j].body = "ret" /\ T[j].val = T[i].val
        /\ T[j].val # Nil
        /\ \A m \in (i + 1)..(j - 1) : m \in Exits("block")
        /\ \E i2 \in Returns : i2 > j /\ T[i2].depth = 1

\* The lines printed for the numbers lo..hi.
Printed(lo, hi) == [x \in 1..(hi - lo + 1) |-> ToString(lo + x - 1)]
\* The executions of the declaration of the function name.
Declared(name) == {j \in Events("funcdecl") : T[j].name = name}

\* C3: a function value captures the Env that was current when its
\* declaration executed, and every call runs in a child of that Env: calls
\* of one closure share the captured binding (makeCounter prints 1, 2, 3) and
\* each call of the enclosing function makes a closure with its own binding
\* (n1 calls of c1, n2 calls of c2 and one more call of c1 print 1..n1,
\* 1..n2 and n1+1).
C3_ClosureCapturesEnv ==
    /\ \A j \in Events("funcdecl") : interp.funs[T[j].fn].closure = T[j].before
    /\ \A j \in Exits("call") :
          interp.envs[T[j].id].enclosing = interp.funs[T[j].fn].closure
    /\ (pc = "done" /\ prog = MakeCounter) => interp.out = <<"1", "2", "3">>
    /\ \A n1 \in 0..MaxArg, n2 \in 0..MaxArg :
          (pc = "done" /\ prog = Counters(n1, n2)) =>
              /\ interp.out = Printed(1, n1) \o Printed(1, n2) \o Printed(n1 + 1, n1 + 1)
              /\ \A j1 \in Declared("count"), j2 \in Declared("count") :
                    j1 # j2 => interp.funs[T[j1].fn].closure
                                  # interp.funs[T[j2].fn].closure

\* A finished run with two counters made by two calls of makeCounter, each
\* called twice before the first is called again.
C3_Witness ==
    /\ pc = "done"
    /\ interp.out = <<"1", "2", "1", "2", "3">>
    /\ \E j1 \in Declared("count"), j2 \in Declared("count") :
          /\ T[j1].before # T[j2].before
          /\ \E c1 \in Exits("call"), c2 \in Exits("call") :
                T[c1].fn = T[j1].fn /\ T[c2].fn = T[j2].fn /\ c1 < c2

\* The evaluations of Variable and Assign nodes.
NameUses == {j \in Events("lookup") : T[j].kind \in {"Variable", "Assign"}}
\* A recorded distance is valid: it stays inside the scopes that were on the
\* resolver's stack when the node was resolved.
ValidDistance(id) ==
    /\ id \in DOMAIN interp.locals
    /\ interp.locals[id] >= 0
    /\ interp.locals[id] < rslv.depths[id]

\* C4 as stated: in a program the resolver accepted, every evaluated Variable
\* or Assign node is in locals with a valid distance or names a variable that
\* exists in the global Env at that moment.
C4_Original ==
    \A j \in NameUses : (T[j].local /\ ValidDistance(T[j].id)) \/ T[j].inGlobal

\* C4: every distance in locals is valid; a Variable or Assign node absent
\* from locals is looked up in the global Env only, and its evaluation
\* succeeds exactly when the name exists there at that moment: otherwise it
\* raises a runtime error, which the resolver does not rule out.
C4_LocalsOrGlobalLookup ==
    /\ \A id \in DOMAIN interp.locals : ValidDistance(id)
    /\ \A j \in NameUses :
        /\ T[j].local <=> T[j].id \in DOMAIN interp.locals
        /\ ~T[j].local => /\ T[j].sig \in {"ok", "err"}
                          /\ T[j].sig = "ok" <=> T[j].inGlobal

\* A finished run of an accepted program in which a local name was read and
\* an assignment to a name that no scope declared raised a runtime error.
C4_Witness ==
    /\ pc = "done"
    /\ err # ""
    /\ \E j \in NameUses : T[j].local /\ T[j].sig = "ok"
    /\ \E j \in NameUses :
          T[j].kind = "Assign" /\ ~T[j].local /\ ~T[j].inGlobal /\ T[j].sig = "err"

(***************************************************************************)
(* Resolver.resolveLocal on its own: one call on a scope stack of at most  *)
(* MaxScopes scopes over the names a and b.                                *)
(***************************************************************************)
ScopeNames == {"a", "b"}
ScopeMaps == UNION {[D -> {TRUE}] : D \in SUBSET ScopeNames}
ScopeStacks == UNION {[1..n -> ScopeMaps] : n \in 0..MaxScopes}
\* The expression node the call is made for.
ResolvedNode == 1

InitResolveLocal ==
    /\ fin \in {[op |-> "resolveLocal", scopes |-> sc, name |-> n] :
                    sc \in ScopeStacks, n \in ScopeNames}
    /\ fout = NoIO
    /\ prog = <<>>
    /\ pc = "call"
    /\ k = 1
    /\ interp = NewInterpreter(<<0>>)
    /\ rslv = [NewResolver(interp.locals) EXCEPT !.scopes = fin.scopes]
    /\ err = ""

\* r.resolveLocal(expr, name)
CallResolveLocal ==
    /\ pc = "call"
    /\ fin.op = "resolveLocal"
    /\ rslv' = resolveLocal(rslv, ResolvedNode, fin.name)
    /\ interp' = [interp EXCEPT !.locals = rslv'.locals]
    /\ fout' = [op |-> "resolveLocal", locals |-> rslv'.locals]
    /\ pc' = "returned"
    /\ UNCHANGED <<prog, k, err, fin>>

NextResolveLocal == CallResolveLocal

SpecResolveLocal == InitResolveLocal /\ [][NextResolveLocal]_vars

\* The indices (1 = outermost) of the scopes of the stack that contain name.
ScopesWith(sc, name) == {j \in 1..Len(sc) : name \in DOMAIN sc[j]}
Innermost(js) == CHOOSE j \in js : \A m \in js : m <= j

\* C5: resolveLocal records for the node the distance from the innermost
\* scope to the innermost scope that contains the name (innermost index
\* minus found index), a number between 0 and the number of scopes minus 1,
\* and records nothing when no scope contains the name.
C5_ResolveLocalDistance ==
    (pc = "returned" /\ fout.op = "resolveLocal") =>
        LET found == ScopesWith(fin.scopes, fin.name)
        IN IF found = {}
           THEN fout.locals = EmptyMap
           ELSE /\ DOMAIN fout.locals = {ResolvedNode}
                /\ fout.locals[ResolvedNode] = Len(fin.scopes) - Innermost(found)
                /\ fout.locals[ResolvedNode] >= 0
                /\ fout.locals[ResolvedNode] <= Len(fin.scopes) - 1

\* A call where two scopes contain the name and the innermost scope does
\* not: the nearer of the two is recorded, at a distance of at least 1.
C5_Witness ==
    /\ pc = "returned"
    /\ fout.op = "resolveLocal"
    /\ Cardinality(ScopesWith(fin.scopes, fin.name)) >= 2
    /\ Len(fin.scopes) \notin ScopesWith(fin.scopes, fin.name)
    /\ fout.locals[ResolvedNode] >= 1

\* The exits of the calls of methods named init.
InitCalls == {j \in Exits("call") : interp.funs[T[j].fn].decl.name = "init"
                                    /\ IsBound(T[j].fn)}

\* C6: a call of a method named init, made by constructing an instance or
\* directly on an instance, yields the instance bound as this in its
\* closure, when the body completes and when it is left by a bare return.
C6_InitYieldsThis ==
    /\ \A j \in InitCalls :
          T[j].body \in {"ok", "ret"} =>
              /\ T[j].sig = "ok"
              /\ T[j].val.t = "LoxInstance"
              /\ T[j].val = ClosureOf(T[j].fn).vars["this"]
    /\ \A bare \in BOOLEAN, ownInit \in BOOLEAN, d \in 0..MaxNest :
          (pc = "done" /\ prog = ClassProg(bare, ownInit, d, 3)) =>
              interp.out = <<"true", "true", IF ownInit THEN "10" ELSE "9">>

\* A finished run that constructed two instances and then called init
\* directly on each: one initializer ends with a bare return, the other
\* completes, and both direct calls compared equal to their instance.
C6_Witness ==
    /\ pc = "done"
    /\ Len(interp.out) = 3 /\ interp.out[1] = "true" /\ interp.out[2] = "true"
    /\ Cardinality(Events("construct")) = 2
    /\ Cardinality(InitCalls) = 4
    /\ \E j \in InitCalls : T[j].body = "ret"
    /\ \E j \in InitCalls : T[j].body = "ok"

\* The inheritance chain of class c, nearest first, and the method that the
\* nearest class of the chain defining name gives it (0 when none does).
RECURSIVE Chain(_)
Chain(c) == IF c = 0 THEN <<>> ELSE <<c>> \o Chain(interp.classes[c].super)
Definers(c, name) ==
    {i \in 1..Len(Chain(c)) : name \in DOMAIN interp.classes[Chain(c)[i]].methods}
NearestDefiner(c, name) ==
    IF Definers(c, name) = {} THEN 0
    ELSE Chain(c)[CHOOSE i \in Definers(c, name) : \A m \in Definers(c, name) : i <= m]
NearestMethod(c, name) ==
    IF NearestDefiner(c, name) = 0 THEN 0
    ELSE interp.classes[NearestDefiner(c, name)].methods[name]
\* The fields written on instance inst before position j of the history.
FieldsSetBefore(inst, j) ==
    {T[s].name : s \in {s \in Events("set") : s < j /\ T[s].id = inst}}

\* C7: calling a class allocates a fresh instance of that class with no
\* fields; when the nearest class of the inheritance chain that defines init
\* exists, that init is bound to the new instance and called with the
\* arguments of the call (as many as its parameters), otherwise nothing is
\* called and the call takes no arguments; the value of the call is the new
\* instance.
C7_ClassCallConstructs ==
    \A j \in Events("construct") :
        LET inst == T[j].after
            init == NearestMethod(T[j].id, "init")
        IN /\ inst = T[j].before + 1
           /\ interp.insts[inst].class = T[j].id
           /\ T[j].sig = "ok" => T[j].val = InstRef(inst)
           /\ DOMAIN T[j].fields = FieldsSetBefore(inst, j)
           /\ IF init = 0
              THEN /\ T[j].fn = 0
                   /\ T[j].args = <<>>
                   /\ T[j].fields = EmptyMap
                   /\ T[j].sig = "ok"
              ELSE /\ T[j].fn # 0
                   /\ interp.funs[T[j].fn].decl = interp.funs[init].decl
                   /\ ClosureOf(T[j].fn).enclosing = interp.funs[init].closure
                   /\ ClosureOf(T[j].fn).vars = [x \in {"this"} |-> InstRef(inst)]
                   /\ Len(T[j].args) = Len(interp.funs[init].decl.params)
                   /\ \E c \in Exits("call") :
                         c < j /\ T[c].fn = T[j].fn /\ T[c].args = T[j].args

\* A run that constructed an instance of a class that inherits init from
\* an ancestor (the initializer wrote a field of the new instance) and an
\* instance of a class without any init.
C7_Witness ==
    /\ \E j \in Events("construct") :
          /\ NearestDefiner(T[j].id, "init") \notin {0, T[j].id}
          /\ T[j].val = InstRef(T[j].after)
          /\ "x" \in DOMAIN T[j].fields
    /\ \E j \in Events("construct") :
          T[j].fn = 0 /\ T[j].val = InstRef(T[j].after) /\ T[j].after >= 2

\* f is the method m bound to instance inst: the same declaration, in a
\* child of m's closure that holds this -> inst and nothing else.
BoundTo(f, m, inst) ==
    /\ interp.funs[f].decl = interp.funs[m].decl
    /\ ClosureOf(f).enclosing = interp.funs[m].closure
    /\ ClosureOf(f).vars = [x \in {"this"} |-> InstRef(inst)]

\* What every property read and write of the history did.
GetSetAsSpecified ==
    /\ \A j \in Events("get") :
        LET m == NearestMethod(interp.insts[T[j].id].class, T[j].name)
        IN IF T[j].name \in DOMAIN T[j].fields
           THEN T[j].sig = "ok" /\ T[j].val = T[j].fields[T[j].name]
           ELSE IF m # 0
           THEN /\ T[j].sig = "ok"
                /\ T[j].val.t = "LoxFunction"
                /\ BoundTo(T[j].val.n, m, T[j].id)
           ELSE T[j].sig = "err" /\ T[j].body = "Undefined property " \o Quote(T[j].name)
    /\ \A j \in Events("set") :
        /\ T[j].name \in DOMAIN T[j].fields
        /\ T[j].fields[T[j].name] = T[j].val
    /\ \A bare \in BOOLEAN, ownInit \in BOOLEAN, d \in 0..MaxNest :
          (pc = "done" /\ prog = ClassProg(bare, ownInit, d, 4)) =>
              /\ interp.out = <<"5", "4">>
              /\ err = "RUNTIME ERROR: Undefined property \"nope\""

\* No step changes a class that exists: its name, methods and superclass.
ClassesKept ==
    /\ Len(interp'.classes) >= Len(interp.classes)
    /\ \A c \in 1..Len(interp.classes) : interp'.classes[c] = interp.classes[c]

\* C8: reading a property returns the field when the instance has a field
\* of that name (also when a method has the name), otherwise the nearest
\* method of that name bound to the instance, otherwise raises Undefined
\* property; a set writes the field map, and no step, a set included,
\* changes the methods of a class.
C8_GetSetProperty == [](GetSetAsSpecified) /\ [][ClassesKept]_vars

\* A finished run that wrote a field named like a method and read it back,
\* read a method through an instance, and read a name that is neither.
C8_Witness ==
    /\ pc = "done"
    /\ \E j \in Events("set") :
          NearestMethod(interp.insts[T[j].id].class, T[j].name) # 0
    /\ \E j \in Events("get") :
          /\ T[j].name \in DOMAIN T[j].fields
          /\ NearestMethod(interp.insts[T[j].id].class, T[j].name) # 0
          /\ T[j].val = Num(5)
    /\ \E j \in Events("get") : T[j].sig = "ok" /\ T[j].val.t = "LoxFunction"
    /\ \E j \in Events("get") : T[j].sig = "err"

\* The property reads that made a bound method: the name was not a field.
MethodReads == {j \in Events("get") : T[j].sig = "ok"
                                      /\ T[j].name \notin DOMAIN T[j].fields}
\* The evaluations of this directly inside the body of function f.
ThisIn(f) == {l \in Events("lookup") : T[l].kind = "ThisExpr" /\ T[l].fn = f}

\* C9: a method read from an instance is a function whose closure is a fresh
\* Env, child of the method's closure, holding only this -> that instance;
\* whenever and wherever the function is called later, this inside its body
\* evaluates to the instance it was read from.
C9_BoundMethodKeepsThis ==
    /\ \A j \in MethodReads :
        LET f == T[j].val.n
            m == NearestMethod(interp.insts[T[j].id].class, T[j].name)
        IN /\ T[j].val.t = "LoxFunction"
           /\ BoundTo(f, m, T[j].id)
           /\ interp.funs[f].closure > T[j].before
           /\ \A l \in ThisIn(f) : T[l].sig = "ok" /\ T[l].val = InstRef(T[j].id)
    /\ \A bare \in BOOLEAN, ownInit \in BOOLEAN, d \in 0..MaxNest :
        /\ (pc = "done" /\ prog = ClassProg(bare, ownInit, d, 2))
              => interp.out = <<IF ownInit THEN "3" ELSE "2">>
        /\ (pc = "done" /\ prog = ClassProg(bare, ownInit, d, 6))
              => interp.out = <<"1", "2", "7">>
        /\ (pc = "done" /\ prog = ClassProg(bare, ownInit, d, 8))
              => interp.out = <<IF ownInit THEN "9" ELSE "8">>

\* A finished run in which a method was read from an instance, stored, and
\* called later in another scope, after another instance was read from a
\* variable: this in its body was the instance the method was read from.
C9_Witness ==
    /\ pc = "done"
    /\ \E j \in MethodReads, c \in Exits("call"), l \in Events("lookup") :
        /\ T[c].fn = T[j].val.n
        /\ j < l /\ l < c
        /\ T[c].before # T[j].after
        /\ l \in ThisIn(T[j].val.n)
        /\ T[l].val = InstRef(T[j].id)
        /\ \E v \in Events("lookup") :
              /\ j < v /\ v < c
              /\ T[v].kind = "Variable" /\ T[v].val.t = "LoxInstance"
              /\ T[v].val # InstRef(T[j].id)

(***************************************************************************)
(* LoxClass.findMethod on its own: one call on a heap of MaxChain classes, *)
(* each with any earlier class or none as superclass and any of the        *)
(* methods m and n; the method name of class c is a function of its own.   *)
(***************************************************************************)
MethodNames == <<"m", "n">>
MethodOf(c, i) == Len(MethodNames) * (c - 1) + i
MethodMaps(c) ==
    {[name \in {MethodNames[i] : i \in D} |->
        MethodOf(c, CHOOSE i \in D : MethodNames[i] = name)] :
            D \in SUBSET (1..Len(MethodNames))}
ClassHeaps ==
    {h \in [1..MaxChain -> [name : {"K"}, super : 0..(MaxChain - 1),
                            methods : UNION {MethodMaps(c) : c \in 1..MaxChain}]] :
        \A c \in 1..MaxChain : h[c].super < c /\ h[c].methods \in MethodMaps(c)}

InitFindMethod ==
    /\ interp \in {[NewInterpreter(<<0>>) EXCEPT !.classes = h] : h \in ClassHeaps}
    /\ fin \in {[op |-> "findMethod", class |-> c, name |-> MethodNames[i]] :
                    c \in 1..MaxChain, i \in 1..Len(MethodNames)}
    /\ fout = NoIO
    /\ prog = <<>>
    /\ pc = "call"
    /\ k = 1
    /\ rslv = NewResolver(interp.locals)
    /\ err = ""

\* c.findMethod(name)
CallFindMethod ==
    /\ pc = "call"
    /\ fin.op = "findMethod"
    /\ fout' = [op |-> "findMethod", method |-> findMethod(interp, fin.class, fin.name)]
    /\ pc' = "returned"
    /\ UNCHANGED <<prog, k, rslv, interp, err, fin>>

NextFindMethod == CallFindMethod

SpecFindMethod == InitFindMethod /\ [][NextFindMethod]_vars

\* C10: findMethod returns the class's own method of the name when it has
\* one; otherwise what the superclass's chain gives, nil without a
\* superclass; so the definition of the nearest class of the chain wins.
C10_FindMethodNearest ==
    (pc = "returned" /\ fout.op = "findMethod") =>
        LET class == interp.classes[fin.class]
        IN /\ fin.name \in DOMAIN class.methods
                => fout.method = class.methods[fin.name]
           /\ (fin.name \notin DOMAIN class.methods /\ class.super = 0)
                => fout.method = NilPtr
           /\ (fin.name \notin DOMAIN class.methods /\ class.super # 0)
                => fout.method = NearestMethod(class.super, fin.name)
           /\ fout.method = NearestMethod(fin.class, fin.name)

\* A lookup on a class that does not define the name while its superclass
\* and the superclass of that one both do: the superclass's method wins.
C10_Witness ==
    /\ pc = "returned"
    /\ fout.op = "findMethod"
    /\ fin.name \notin DOMAIN interp.classes[fin.class].methods
    /\ Cardinality(Definers(fin.class, fin.name)) >= 2
    /\ fout.method = interp.classes[interp.classes[fin.class].super].methods[fin.name]

\* The value the nearest Env of the chain starting at e binds name to;
\* Unbound when no Env of the chain binds it.
Unbound == [t |-> "unbound", n |-> 0, e |-> 0, s |-> ""]
RECURSIVE Visible(_, _)
Visible(e, name) ==
    IF e = NilPtr THEN Unbound
    ELSE IF name \in DOMAIN interp.envs[e].vars THEN interp.envs[e].vars[name]
    ELSE Visible(interp.envs[e].enclosing, name)

\* The class of an instance, the reads of a method that the class of the
\* instance inherits, the class that defines the method read at j, and the
\* exits of the calls of function f.
ClassOf(inst) == interp.insts[inst].class
DefinerAt(j) == NearestDefiner(ClassOf(T[j].id), T[j].name)
InheritedReads == {j \in MethodReads : DefinerAt(j) # ClassOf(T[j].id)}
CallsOf(f) == {c \in Exits("call") : T[c].fn = f}
SupersIn(f) == {x \in Events("super") : T[x].fn = f}

\* C11 as stated: a method that an instance of C inherits from S runs in an
\* Env where this is the instance and super is S.
C11_Original ==
    \A j \in InheritedReads : \A c \in CallsOf(T[j].val.n) :
        /\ Visible(T[c].id, "this") = InstRef(T[j].id)
        /\ Visible(T[c].id, "super") = ClassRef(DefinerAt(j))

\* The Env a method of class b closes over: the one the class statement of b
\* was executing in when it declared the method.
DeclaredIn(b, name) == interp.funs[interp.classes[b].methods[name]].closure

\* C11: a method that the class of an instance inherits from a class S of
\* its chain runs in an Env where this is the instance. When S has a
\* superclass, super is that superclass there, not S. When S has none, the
\* class statement of S bound no super: neither the Env of the call nor the
\* Env of this binds it, and above them lies the Env that S was declared in,
\* so super is there whatever it was where S was declared. In both cases
\* this in the body evaluates to the instance and super.m in the body starts
\* at the superclass of S.
C11_InheritedMethodEnv ==
    /\ \A j \in InheritedReads :
        LET f == T[j].val.n
            up == interp.classes[DefinerAt(j)].super
            declared == DeclaredIn(DefinerAt(j), T[j].name)
        IN /\ \A c \in CallsOf(f) :
                /\ Visible(T[c].id, "this") = InstRef(T[j].id)
                /\ up # NilPtr => Visible(T[c].id, "super") = ClassRef(up)
                /\ up = NilPtr =>
                      /\ "super" \notin DOMAIN interp.envs[T[c].id].vars
                      /\ interp.envs[T[c].id].enclosing = interp.funs[f].closure
                      /\ DOMAIN ClosureOf(f).vars = {"this"}
                      /\ ClosureOf(f).enclosing = declared
                      /\ Visible(T[c].id, "super") = Visible(declared, "super")
           /\ \A l \in ThisIn(f) : T[l].sig = "ok" /\ T[l].val = InstRef(T[j].id)
           /\ \A x \in SupersIn(f) : T[x].id = up /\ T[x].after = T[j].id
    /\ \A d \in 0..MaxNest :
        /\ (pc = "done" /\ prog = SuperProg(d, 1, "C"))
              => interp.out = <<"\"A\"", "\"C\"">>
        /\ (pc = "done" /\ prog = SuperProg(d, 2, "C")) => interp.out = <<"true">>
        /\ (pc = "done" /\ prog = NestedSuper(d))
              => interp.out = <<"false", "\"A\"", "\"C\"">>

\* A finished run that called, on one instance, a method of an ancestor
\* whose body evaluated this and a method of its superclass whose body
\* evaluated super: super was the superclass of the declaring class. The
\* same run called a method inherited from a class without superclass that
\* was declared inside a method of a subclass: super was visible in the call,
\* the one of the enclosing method.
C11_Witness ==
    /\ pc = "done"
    /\ \E j \in InheritedReads :
          /\ CallsOf(T[j].val.n) # {}
          /\ \E l \in ThisIn(T[j].val.n) : T[l].val = InstRef(T[j].id)
    /\ \E j \in InheritedReads : \E c \in CallsOf(T[j].val.n) :
          /\ interp.classes[DefinerAt(j)].super # NilPtr
          /\ interp.classes[ClassOf(T[j].id)].super = DefinerAt(j)
          /\ Visible(T[c].id, "super") = ClassRef(interp.classes[DefinerAt(j)].super)
          /\ \E x \in SupersIn(T[j].val.n) : T[x].sig = "ok" /\ T[x].id # DefinerAt(j)
    /\ \E j \in InheritedReads : \E c \in CallsOf(T[j].val.n) :
          /\ interp.classes[DefinerAt(j)].super = NilPtr
          /\ Visible(T[c].id, "super") \notin {Unbound, ClassRef(DefinerAt(j))}
          /\ Visible(T[c].id, "super").t = "LoxClass"

\* The classes that declare the method f is bound from.
DeclaringClasses(f) ==
    {b \in 1..Len(interp.classes) :
        \E name \in DOMAIN interp.classes[b].methods :
            /\ interp.funs[f].decl = interp.funs[interp.classes[b].methods[name]].decl
            /\ ClosureOf(f).enclosing = interp.funs[interp.classes[b].methods[name]].closure}

\* C12: super.m evaluated in a method declared in class B looks m up from
\* the declared superclass of B through that class's chain, whatever the
\* class of the current instance is, and yields the nearest method of the
\* chain bound to the instance this stands for; when the chain has no m it
\* raises Undefined property.
C12_SuperLookup ==
    /\ \A x \in Events("super") :
        LET f == T[x].fn
            m == NearestMethod(T[x].id, T[x].name)
        IN /\ f # 0
           /\ IsBound(f)
           /\ ClosureOf(f).vars["this"] = InstRef(T[x].after)
           /\ DeclaringClasses(f) # {}
           /\ \A b \in DeclaringClasses(f) : interp.classes[b].super = T[x].id
           /\ IF m = 0
              THEN T[x].sig = "err" /\ T[x].body = "Undefined property " \o Quote(T[x].name)
              ELSE /\ T[x].sig = "ok"
                   /\ T[x].val.t = "LoxFunction"
                   /\ BoundTo(T[x].val.n, m, T[x].after)
    /\ \A d \in 0..MaxNest, class \in {"B", "C"} :
        /\ (pc = "done" /\ prog = SuperProg(d, 1, class))
              => interp.out = <<"\"A\"", "\"" \o class \o "\"">>
        /\ (pc = "done" /\ prog = SuperProg(d, 3, class))
              => /\ interp.out = <<"\"A\"">>
                 /\ err = "RUNTIME ERROR: Undefined property \"nope\""
        /\ (pc = "done" /\ prog = SuperProg(d, 4, class)) => interp.out = <<"\"A\"">>
    /\ (pc = "done" /\ prog = SuperSay) => interp.out = <<"\"a\"", "\"b\"">>

\* A finished run in which super.who, evaluated on an instance of a subclass
\* of the declaring class that overrides who, yielded the method of the
\* declared superclass, and super.nope then raised Undefined property.
C12_Witness ==
    /\ pc = "done"
    /\ err = "RUNTIME ERROR: Undefined property \"nope\""
    /\ \E x \in Events("super") :
          /\ T[x].sig = "ok"
          /\ ClassOf(T[x].after) \notin DeclaringClasses(T[x].fn)
          /\ T[x].name \in DOMAIN interp.classes[ClassOf(T[x].after)].methods
          /\ interp.classes[ClassOf(T[x].after)].super # T[x].id
    /\ \E x \in Events("super") : T[x].sig = "err"

\* Nothing was executed: no output, no statement started, no Env, function,
\* class or instance made, and the global Env holds clock only.
NothingExecuted ==
    /\ interp.out = <<>>
    /\ interp.trace = <<>>
    /\ interp.envs = NewInterpreter(<<0>>).envs
    /\ interp.funs = <<>> /\ interp.classes = <<>> /\ interp.insts = <<>>
    /\ interp.scope = interp.global

\* C13: Interpret resolves every statement before it evaluates any: while
\* the resolver loop runs nothing is executed, and when the resolver rejects
\* a statement anywhere in the program Interpret returns that error with
\* nothing executed (no output, no variable defined), also for the
\* statements that precede the rejected one.
C13_ResolveBeforeEval ==
    /\ pc = "resolve" => NothingExecuted
    /\ rslv.sig # "ok" => /\ pc = "done"
                          /\ err = "RUNTIME ERROR: " \o rslv.err
                          /\ NothingExecuted
    /\ pc = "eval" => rslv.sig = "ok"
    /\ prog \in StaticProgs => pc \in {"resolve", "done"}
    /\ \A j \in StaticErrs, n \in 0..Len(StaticPrefix) :
          (pc = "done" /\ prog = StaticProg(j, n)) =>
              /\ err = "RUNTIME ERROR: " \o StaticMsg(j)
              /\ NothingExecuted

\* Interpret returned the error of a return at top level that stands after
\* a variable declaration and a print statement: neither was executed.
C13_Witness ==
    /\ pc = "done"
    /\ prog = StaticProg(1, 2)
    /\ k = 3
    /\ err = "RUNTIME ERROR: Can't return from top-level code"
    /\ interp.out = <<>>
    /\ "a" \notin DOMAIN interp.envs[interp.global].vars

\* The starts of the statements of the program, in the order of the history.
Tops == Events("top")
Globals == interp.envs[interp.global].vars

\* C14: the statements of the program start in order, each once; when a
\* runtime error is raised while statement k executes, Interpret returns
\* that one error, statement k is the last that started (the statements
\* after it never execute), and what the statements before k printed and
\* defined is kept.
C14_RuntimeErrorStops ==
    /\ \A j \in Tops : T[j].id = Cardinality({i \in Tops : i <= j})
    /\ (pc = "done" /\ err # "" /\ rslv.sig = "ok") =>
          /\ k \in 1..Len(prog)
          /\ Cardinality(Tops) = k
    /\ (pc = "done" /\ err = "") => Cardinality(Tops) = Len(prog)
    /\ \A j \in RunErrs, n \in 0..Len(RunPrefix) :
          (pc = "done" /\ prog = RunProg(j, n)) =>
              /\ err = "RUNTIME ERROR: " \o RunMsg(j)
              /\ k = n + 1
              /\ interp.out = (IF n = 2 THEN <<"1">> ELSE <<>>)
                              \o (IF j = 5 THEN <<"2">> ELSE <<>>)
              /\ DOMAIN Globals = {"clock"} \cup (IF n >= 1 THEN {"a"} ELSE {})
              /\ n >= 1 => Globals["a"] = Num(1)

\* Interpret returned the error of the third statement of a program: the
\* variable the first statement defined and the line the second printed are
\* there, and the two statements after the third never started.
C14_Witness ==
    /\ pc = "done"
    /\ prog = RunProg(1, 2)
    /\ err = "RUNTIME ERROR: undefined \"zz\""
    /\ Cardinality(Tops) = 3
    /\ Len(prog) = 5
    /\ interp.out = <<"1">>
    /\ Globals["a"] = Num(1)
    /\ "z" \notin DOMAIN Globals

(***************************************************************************)
(* The Assign case on its own: one assignment of 7 evaluated in the        *)
(* innermost Env of a chain of at most MaxScopes Envs (the outermost is    *)
(* the global Env) over the names a and b; the node is in locals with a    *)
(* distance inside the chain, or absent from locals.                       *)
(***************************************************************************)
AssignNames == {"a", "b"}
EnvMaps == UNION {[D -> {Num(0)}] : D \in SUBSET AssignNames}
EnvChains ==
    UNION {{[j \in 1..n |-> [vars |-> f[j], enclosing |-> j - 1]] :
                f \in [1..n -> EnvMaps]} : n \in 1..MaxScopes}
\* The Assign node that is evaluated.
AssignedNode == 1

InitAssign ==
    /\ fin \in {[op |-> "assign", envs |-> c, name |-> n, local |-> b, distance |-> d] :
                    c \in EnvChains, n \in AssignNames, b \in BOOLEAN,
                    d \in 0..(MaxScopes - 1)}
    /\ fin.distance < Len(fin.envs)
    /\ ~fin.local => fin.distance = 0
    /\ fout = NoIO
    /\ prog = <<>>
    /\ pc = "call"
    /\ k = 1
    /\ interp = [NewInterpreter(<<0>>) EXCEPT
                    !.envs = fin.envs, !.scope = Len(fin.envs),
                    !.locals = IF fin.local
                               THEN [x \in {AssignedNode} |-> fin.distance]
                               ELSE [x \in {} |-> 0]]
    /\ rslv = NewResolver(interp.locals)
    /\ err = ""

\* i.execute(&Assign{name, val: &Literal{7}})
CallAssign ==
    /\ pc = "call"
    /\ fin.op = "assign"
    /\ interp' = execute(interp, Assign(AssignedNode, fin.name, N(7))).I
    /\ fout' = [op |-> "assign",
                sig |-> execute(interp, Assign(AssignedNode, fin.name, N(7))).sig,
                v |-> execute(interp, Assign(AssignedNode, fin.name, N(7))).v]
    /\ pc' = "returned"
    /\ UNCHANGED <<prog, k, rslv, err, fin>>

NextAssign == CallAssign

SpecAssign == InitAssign /\ [][NextAssign]_vars

\* The Env an assignment targets: distance hops up from the current Env for
\* a node in locals, the global Env otherwise.
TargetEnv == IF fin.local THEN Len(fin.envs) - fin.distance ELSE interp.global

\* C15 as stated: the assignment overwrites the binding of the Env it
\* targets and changes nothing else; when the own map of that Env lacks the
\* name it fails with a runtime error and leaves every Env unchanged.
C15_Original ==
    (pc = "returned" /\ fout.op = "assign") =>
        IF fin.name \in DOMAIN fin.envs[TargetEnv].vars
        THEN /\ fout.sig = "ok"
             /\ interp.envs = [fin.envs EXCEPT ![TargetEnv].vars[fin.name] = Num(7)]
        ELSE /\ fout.sig = "err"
             /\ interp.envs = fin.envs

\* The values that are falsy, and whether the left operand va determines
\* the result of va op vb.
Falsy == {Nil, Bool(FALSE)}
Determines(op, va) == (op = "OR" /\ va \notin Falsy) \/ (op = "AND" /\ va \in Falsy)

\* C16: (x = va) or (y = vb) and (x = va) and (y = vb) yield va itself when
\* va determines the result (va truthy for or, falsy for and; 0 and the
\* empty string are truthy) and leave y unassigned: the right operand is not
\* evaluated; otherwise they yield vb itself, after assigning y.
C16_LogicalOperand ==
    \A op \in LogicOps, va \in LogicVals, vb \in LogicVals :
        (pc = "done" /\ prog = LogicProg(op, va, vb)) =>
            /\ err = ""
            /\ interp.out = << format(interp, IF Determines(op, va) THEN va ELSE vb),
                               format(interp, va),
                               IF Determines(op, va) THEN "\"unset\""
                               ELSE format(interp, vb) >>
            /\ Globals["x"] = va
            /\ Globals["y"] = IF Determines(op, va) THEN Str("\"unset\"") ELSE vb

\* A finished run of (x = 0) or (y = "s"): the value printed is 0, not true,
\* and y was never assigned.
C16_Witness ==
    /\ pc = "done"
    /\ prog = LogicProg("OR", Num(0), Str("\"s\""))
    /\ interp.out = <<"0", "0", "\"unset\"">>

\* The evaluations of Assign nodes that succeeded.
Assigned == {j \in Events("lookup") : T[j].kind = "Assign" /\ T[j].sig = "ok"}

\* C17: an assignment evaluates its value expression once (rhs() counts its
\* calls in n), stores the value, and yields it: print a = rhs() prints 123
\* with a = 123 and n = 1 afterwards, print a = b = 5 prints 5 with a and b
\* both 5, and print a = 123 prints 123 and leaves a = 123.
C17_AssignYieldsValue ==
    /\ \A d \in 0..MaxNest :
          (pc = "done" /\ prog = AssignProg(d)) =>
              /\ err = ""
              /\ interp.out = <<"123", "123", "1", "5", "5", "5">>
              /\ Cardinality({c \in Exits("call") :
                                 interp.funs[T[c].fn].decl.name = "rhs"}) = 1
    /\ (pc = "done" /\ prog = PrintAssign) =>
          /\ interp.out = <<"123">>
          /\ Globals["a"] = Num(123)
          /\ Cardinality(Assigned) = 1

\* A finished run of print a = rhs() inside a block: 123 was printed, a is
\* 123 and rhs ran once.
C17_Witness ==
    /\ pc = "done"
    /\ prog = AssignProg(1)
    /\ Len(interp.out) = 6
    /\ interp.out[1] = "123" /\ interp.out[2] = "123" /\ interp.out[3] = "1"
    /\ \E j \in Assigned : T[j].name = "a" /\ T[j].val = Num(123) /\ T[j].local

\* The exits of the calls of the functions declared with name, and what
\* each call of CallUses must print and raise.
CallsNamed(name) == {c \in Exits("call") : interp.funs[T[c].fn].decl.name = name}
CallOut(j) ==
    CASE j = 1 -> <<"\"callee\"", "1", "2", "\"body\"", "3", "\"end\"">>
      [] j = 2 -> <<"1", "2">>
      [] j = 3 -> <<"1">>
      [] j = 4 -> <<"1", "2", "3">>
      [] j = 5 -> <<>>
      [] j = 6 -> <<"1", "2">>
      [] j = 7 -> <<"1">>
      [] j = 8 -> <<"1">>
      [] j = 9 -> <<"1">>
      [] j = 10 -> <<"1">>
      [] j = 11 -> <<"1", "\"init\"", "<instance A>", "\"end\"">>
CallErr(j) ==
    CASE j \in {1, 11} -> ""
      [] j = 2 -> "RUNTIME ERROR: Not callable string"
      [] j = 9 -> "RUNTIME ERROR: Not callable <nil>"
      [] j = 10 -> "RUNTIME ERROR: Not callable *glox.LoxInstance"
      [] j = 3 -> "RUNTIME ERROR: Expected 2 arguments but got 1"
      [] j = 4 -> "RUNTIME ERROR: Expected 2 arguments but got 3"
      [] j = 5 -> "RUNTIME ERROR: Expected 1 arguments but got 0"
      [] j = 6 -> "RUNTIME ERROR: Expected 1 arguments but got 2"
      [] j \in {7, 8} -> "RUNTIME ERROR: Expected 0 arguments but got 1"

\* C18: a call evaluates the callee, then each argument once from left to
\* right (g() prints callee before t(1) and t(2) print 1 and 2, and the body
\* runs after them); a callee that is a string, nil or an instance raises
\* Not callable and a number of arguments different from the arity of the
\* function, the class (the arity of its init, 0 without one) or clock
\* raises Expected arguments, both after the arguments were evaluated and
\* without any body, initializer or constructor being run.  Every call that
\* does run received as many arguments as the callee has parameters.
C18_CallOrderAndChecks ==
    /\ \A c \in Exits("call") :
          Len(T[c].args) = Len(interp.funs[T[c].fn].decl.params)
    /\ \A c \in Events("construct") :
          Len(T[c].args) = IF NearestMethod(T[c].id, "init") = 0 THEN 0
                           ELSE Len(interp.funs[NearestMethod(T[c].id, "init")].decl.params)
    /\ \A d \in 0..MaxNest, j \in CallUses :
          (pc = "done" /\ prog = CallProg(d, j)) =>
              /\ interp.out = CallOut(j)
              /\ err = CallErr(j)
              /\ Cardinality(CallsNamed("t")) = Len(CallUse(j).expr.args)
              /\ j # 1 => CallsNamed("f") = {}
              /\ j # 11 => CallsNamed("init") = {}
              /\ Cardinality(Events("construct")) = IF j \in {10, 11} THEN 1 ELSE 0
    /\ (pc = "done" /\ prog = CallBoth) =>
          /\ interp.out = <<"\"callee\"", "1", "2", "\"body\"", "3", "1", "2">>
          /\ err = "RUNTIME ERROR: Not callable string"

\* A finished run of g()(t(1), t(2)) followed by "str"(t(1), t(2)): callee,
\* 1, 2, body were printed in this order and f received 1 and 2; then both
\* arguments of the call of the string were evaluated before Not callable
\* was raised.
C18_Witness ==
    /\ pc = "done"
    /\ prog = CallBoth
    /\ interp.out = <<"\"callee\"", "1", "2", "\"body\"", "3", "1", "2">>
    /\ \E c \in CallsNamed("f") : T[c].args = <<Num(1), Num(2)>>
    /\ Cardinality(CallsNamed("t")) = 4
    /\ err = "RUNTIME ERROR: Not callable string"

\* C19: +, -, *, / and the four comparisons applied to operands that are
\* not both numbers raise the type mismatch error after the left and then
\* the right operand were evaluated (l and r are assigned, in this order);
\* the variable of a var statement is not defined, the variable of an
\* assignment keeps its value, and the statement prints nothing; no other
\* panic than this error leaves the evaluation.
C19_TypeMismatch ==
    \A op \in ArithOps \cup CompareOps, m \in Mismatches, ctx \in Contexts :
        /\ prog = TypeProg(op, m, ctx) => pc # "crashed"
        /\ (pc = "done" /\ prog = TypeProg(op, m, ctx)) =>
               /\ err = "RUNTIME ERROR: " \o Quote(Lexeme(op))
                            \o " requires number arguments: "
                            \o TypeName(IF m[1].t # "float64" THEN m[1] ELSE m[2])
               /\ k = 4
               /\ interp.out = <<>>
               /\ DOMAIN Globals = {"clock", "l", "r", "a"}
               /\ Globals["l"] = m[1]
               /\ Globals["r"] = m[2]
               /\ Globals["a"] = Num(0)
               /\ \E i \in Assigned, j \in Assigned :
                     /\ i < j
                     /\ T[i].name = "l" /\ T[j].name = "r"
                     /\ Assigned = {i, j}

\* Interpret returned the type mismatch of var v = (l = 1) + (r = "x"): l
\* and r were assigned, v does not exist, nothing was printed.
C19_Witness ==
    /\ pc = "done"
    /\ prog = TypeProg("PLUS", <<Num(1), Str("\"x\"")>>, "var")
    /\ err = "RUNTIME ERROR: \"+\" requires number arguments: string"
    /\ Globals["l"] = Num(1)
    /\ Globals["r"] = Str("\"x\"")
    /\ "v" \notin DOMAIN Globals
    /\ interp.out = <<>>

\* The number of while loops in a statement (function bodies apart).
RECURSIVE Loops(_), LoopsIn(_, _)
Loops(node) ==
    CASE node.kind = "WhileStmt" -> 1 + Loops(node.body)
      [] node.kind = "BlockStmt" -> LoopsIn(node.statements, 1)
      [] node.kind = "IfStmt" -> Loops(node.thenBranch) + Loops(node.elseBranch)
      [] OTHER -> 0
LoopsIn(stmts, j) == IF j > Len(stmts) THEN 0 ELSE Loops(stmts[j]) + LoopsIn(stmts, j + 1)

\* What the five programs print when for (init; cond; incr) body is
\* { init; while (cond) { body; incr; } }.
ForOut(j) ==
    CASE j \in {1, 2, 4} -> <<"0", "1">>
      [] j = 3 -> <<"0", "1", "2">>
      [] j = 5 -> <<"\"body\"", "\"body\"", "1">>
      [] j = 6 -> <<"5", "10">>

\* C20 as stated: the statement parseForStmt builds contains exactly one
\* loop, and it runs as { init; while (cond) { body; incr; } } with a
\* skipped condition being true: the initializer runs once and the
\* condition is evaluated where the initializer's variable is visible, so
\* each program ends without error and prints what that block prints.
C20_Original ==
    \A j \in ForUses :
        prog = ForProg(j) =>
            /\ Loops(ForStmt(j)) = 1
            /\ pc = "done" => err = "" /\ interp.out = ForOut(j)

\* What the five programs print when the calls of clock() yield the
\* readings of the wall clock as Numbers.
ClockOut(j) ==
    CASE j = 1 -> <<FormatFloat(FSub(Num(interp.wall[1]), Num(interp.wall[2])))>>
      [] j = 2 -> <<IF interp.wall[1] < 1 THEN "true" ELSE "false">>
      [] j = 3 -> <<FormatFloat(Num(interp.wall[1] + 1))>>
      [] j = 4 -> <<FormatFloat(Num(interp.wall[1]))>>
      [] j = 5 -> <<IF interp.wall[2] = interp.wall[3] THEN "true" ELSE "false">>

\* C21 as stated: clock has arity 0 and a call of it yields a value of the
\* Number kind (float64, the kind mustBeNumbers accepts), so the programs
\* that subtract, compare or add the result of clock() end without error
\* and print the result of the operator.
C21_Original ==
    /\ arity(interp, ClockRef) = 0
    /\ builtinClock_call(interp).v.t = "float64"
    /\ ~mustBeNumbers(<<builtinClock_call(interp).v, builtinClock_call(interp).v>>)
    /\ \A j \in ClockUses :
          (prog = ClockProg(j) /\ pc = "done") => err = "" /\ interp.out = ClockOut(j)

(***************************************************************************)
(* Parser.Parse on token lists.                                            *)
(***************************************************************************)
\* Longest parameter and argument list of the inputs.
MaxItems == 257

K(kind) == Token(kind, Lexeme(kind))
Ident(name) == Token("IDENTIFIER", name)
Number(lit) == Token("NUMBER", lit)
EOF == K("EOF")

\* item, then n - 1 times: ',' item
CommaList(item, n) ==
    [j \in 1..(IF n = 0 THEN 0 ELSE 2 * n - 1) |-> IF j % 2 = 1 THEN item ELSE K("COMMA")]

\* fun f(a, ..., a) {}     with n parameters
ParamTokens(n) ==
    <<K("FUN"), Ident("f"), K("PAREN_LEFT")>> \o CommaList(Ident("a"), n)
    \o <<K("PAREN_RIGHT"), K("BRACE_LEFT"), K("BRACE_RIGHT"), EOF>>

\* f(1, ..., 1);           with n arguments
ArgTokens(n) ==
    <<Ident("f"), K("PAREN_LEFT")>> \o CommaList(Number("1"), n)
    \o <<K("PAREN_RIGHT"), K("SEMICOLON"), EOF>>

\* Token lists with one syntax error each.
\*  1: 1 + ;            2: 1 + 2            3: print (1;        4: 1 = 2;
\*  5: (a) = 2;         6: var = 1;         7: { 1;             8: f(1;
\*  9: print 1; 2 = 3;  10: a + b = 1;      11: if 1) 2;        12: fun f(a {}
SyntaxErrs == 1..12
SyntaxErr(j) ==
    CASE j = 1 -> <<Number("1"), K("PLUS"), K("SEMICOLON"), EOF>>
      [] j = 2 -> <<Number("1"), K("PLUS"), Number("2"), EOF>>
      [] j = 3 -> <<K("PRINT"), K("PAREN_LEFT"), Number("1"), K("SEMICOLON"), EOF>>
      [] j = 4 -> <<Number("1"), K("EQUAL"), Number("2"), K("SEMICOLON"), EOF>>
      [] j = 5 -> <<K("PAREN_LEFT"), Ident("a"), K("PAREN_RIGHT"), K("EQUAL"),
                    Number("2"), K("SEMICOLON"), EOF>>
      [] j = 6 -> <<K("VAR"), K("EQUAL"), Number("1"), K("SEMICOLON"), EOF>>
      [] j = 7 -> <<K("BRACE_LEFT"), Number("1"), K("SEMICOLON"), EOF>>
      [] j = 8 -> <<Ident("f"), K("PAREN_LEFT"), Number("1"), K("SEMICOLON"), EOF>>
      [] j = 9 -> <<K("PRINT"), Number("1"), K("SEMICOLON"),
                    Number("2"), K("EQUAL"), Number("3"), K("SEMICOLON"), EOF>>
      [] j = 10 -> <<Ident("a"), K("PLUS"), Ident("b"), K("EQUAL"), Number("1"),
                     K("SEMICOLON"), EOF>>
      [] j = 11 -> <<K("IF"), Number("1"), K("PAREN_RIGHT"), Number("2"),
                     K("SEMICOLON"), EOF>>
      [] j = 12 -> <<K("FUN"), Ident("f"), K("PAREN_LEFT"), Ident("a"),
                     K("BRACE_LEFT"), K("BRACE_RIGHT"), EOF>>

\* Token lists without a syntax error.
\*  1: (empty)          2: a = 2;           3: print 1 + 2 * 3;
\*  4: var a; if (a) print a; else { a = 1; }
\*  5: while (a < 2) a = a + 1;
\*  6: for (var i = 0; i < 2; i = i + 1) print i;
\*  7: fun f(a) { var a = 1; print a; } f(2);
\*  8: print 1e5 + -1 * 2.5;  with the NUMBER tokens 1e5, -1 and 2.5, the
\*     first two of a kind Scan does not make but NewParser accepts
WellFormed == 1..8
WellFormedTokens(j) ==
    CASE j = 1 -> <<EOF>>
      [] j = 2 -> <<Ident("a"), K("EQUAL"), Number("2"), K("SEMICOLON"), EOF>>
      [] j = 3 -> <<K("PRINT"), Number("1"), K("PLUS"), Number("2"), K("STAR"),
                    Number("3"), K("SEMICOLON"), EOF>>
      [] j = 4 -> <<K("VAR"), Ident("a"), K("SEMICOLON"),
                    K("IF"), K("PAREN_LEFT"), Ident("a"), K("PAREN_RIGHT"),
                    K("PRINT"), Ident("a"), K("SEMICOLON"),
                    K("ELSE"), K("BRACE_LEFT"), Ident("a"), K("EQUAL"), Number("1"),
                    K("SEMICOLON"), K("BRACE_RIGHT"), EOF>>
      [] j = 5 -> <<K("WHILE"), K("PAREN_LEFT"), Ident("a"), K("LESS"), Number("2"),
                    K("PAREN_RIGHT"), Ident("a"), K("EQUAL"), Ident("a"), K("PLUS"),
                    Number("1"), K("SEMICOLON"), EOF>>
      [] j = 6 -> <<K("FOR"), K("PAREN_LEFT"), K("VAR"), Ident("i"), K("EQUAL"),
                    Number("0"), K("SEMICOLON"), Ident("i"), K("LESS"), Number("2"),
                    K("SEMICOLON"), Ident("i"), K("EQUAL"), Ident("i"), K("PLUS"),
                    Number("1"), K("PAREN_RIGHT"), K("PRINT"), Ident("i"),
                    K("SEMICOLON"), EOF>>
      [] j = 7 -> <<K("FUN"), Ident("f"), K("PAREN_LEFT"), Ident("a"), K("PAREN_RIGHT"),
                    K("BRACE_LEFT"), K("VAR"), Ident("a"), K("EQUAL"), Number("1"),
                    K("SEMICOLON"), K("PRINT"), Ident("a"), K("SEMICOLON"),
                    K("BRACE_RIGHT"),
                    Ident("f"), K("PAREN_LEFT"), Number("2"), K("PAREN_RIGHT"),
                    K("SEMICOLON"), EOF>>
      [] j = 8 -> <<K("PRINT"), Number("1e5"), K("PLUS"), Number("-1"), K("STAR"),
                    Number("2.5"), K("SEMICOLON"), EOF>>

\* Each list with a syntax error alone, after a statement, after two
\* statements, inside a block and inside the body of a function.
Places == 1..5
Placed(ts, place) ==
    CASE place = 1 -> ts
      [] place = 2 -> <<K("PRINT"), Number("1"), K("SEMICOLON")>> \o ts
      [] place = 3 -> <<K("VAR"), Ident("x"), K("SEMICOLON"),
                        Ident("x"), K("EQUAL"), Number("1"), K("SEMICOLON")>> \o ts
      [] place = 4 -> <<K("BRACE_LEFT")>> \o SubSeq(ts, 1, Len(ts) - 1)
                      \o <<K("BRACE_RIGHT"), EOF>>
      [] place = 5 -> <<K("FUN"), Ident("g"), K("PAREN_LEFT"), K("PAREN_RIGHT"),
                        K("BRACE_LEFT")>> \o SubSeq(ts, 1, Len(ts) - 1)
                      \o <<K("BRACE_RIGHT"), EOF>>

TokenLists ==
    {ParamTokens(n) : n \in 0..MaxArg} \cup {ArgTokens(n) : n \in 0..MaxArg}
    \cup {Placed(SyntaxErr(j), place) : j \in SyntaxErrs, place \in Places}
    \cup {Placed(WellFormedTokens(j), place) : j \in WellFormed, place \in Places}

InitParse ==
    /\ fin \in {[op |-> "Parse", tokens |-> ts] : ts \in TokenLists}
    /\ fout = NoIO
    /\ prog = <<>>
    /\ pc = "call"
    /\ k = 1
    /\ interp = NewInterpreter(<<0>>)
    /\ rslv = NewResolver(interp.locals)
    /\ err = ""

\* stmts, err := NewParser(tokens).Parse()
ParseEnds(r) ==
    /\ prog' = r.stmts
    /\ err' = r.err
    /\ pc' = CASE r.sig = "panic" -> "panicked"
               [] r.sig = "outside" -> "outside"
               [] OTHER -> "returned"
    /\ fout' = [op |-> "Parse"]

CallParse ==
    /\ pc = "call"
    /\ fin.op = "Parse"
    /\ ParseEnds(Parse(fin.tokens))
    /\ UNCHANGED <<k, rslv, interp, fin>>

NextParse == CallParse

SpecParse == InitParse /\ [][NextParse]_vars

(***************************************************************************)
(* The parameter loop of Parser.parseFuncStmt and the argument loop of     *)
(* Parser.finishCall, one iteration per step: fout holds the position and  *)
(* the list built so far.                                                  *)
(***************************************************************************)
\* Lengths of the lists parsed: short ones and those around the limit.
ListLens == (0..MaxArg) \cup ((ListLimit - 1)..MaxItems)

\* Position of the first token after '(' in ParamTokens and ArgTokens.
ListStart(op) == IF op = "parseFuncStmt" THEN 4 ELSE 3

InitList ==
    /\ fin \in {[op |-> "parseFuncStmt", n |-> n, tokens |-> ParamTokens(n)] : n \in ListLens}
               \cup {[op |-> "finishCall", n |-> n, tokens |-> ArgTokens(n)] : n \in ListLens}
    /\ fout = NoIO
    /\ prog = <<>>
    /\ pc = "call"
    /\ k = 1
    /\ interp = NewInterpreter(<<0>>)
    /\ rslv = NewResolver(interp.locals)
    /\ err = ""

\* if !p.check(PAREN_RIGHT) { for { ... } }
ListEnter ==
    /\ pc = "call"
    /\ fin.op \in {"parseFuncStmt", "finishCall"}
    /\ pc' = IF ~check(fin.tokens, ListStart(fin.op), "PAREN_RIGHT") THEN "loop" ELSE "rest"
    /\ fout' = POk(ListStart(fin.op), <<>>)
    /\ UNCHANGED <<prog, k, rslv, interp, err, fin>>

\* One iteration of the loop.
ListIterEnds(r) ==
    /\ fout' = r
    /\ pc' = IF r.sig = "again" THEN "loop" ELSE "rest"

ListIter ==
    /\ pc = "loop"
    /\ ListIterEnds(IF fin.op = "parseFuncStmt"
                    THEN paramsStep(fin.tokens, fout.cur, fout.node)
                    ELSE argsStep(fin.tokens, fout.cur, fout.node))
    /\ UNCHANGED <<prog, k, rslv, interp, err, fin>>

\* The rest of the function after the list: fout is its result, err the
\* message of the parsingError it raised.
ListReturnEnds(r) ==
    /\ fout' = r
    /\ err' = r.err
    /\ pc' = "returned"

ListReturn ==
    /\ pc = "rest"
    /\ ListReturnEnds(IF fin.op = "parseFuncStmt"
                      THEN parseFunc_params(fin.tokens, "f", fout)
                      ELSE finishCall_args(fin.tokens, Variable(1, "f"), fout))
    /\ UNCHANGED <<prog, k, rslv, interp, fin>>

NextList == ListEnter \/ ListIter \/ ListReturn

SpecList == InitList /\ [][NextList]_vars

\* C22 as stated: parseFuncStmt and finishCall accept a list of 0 to 255
\* items, returning a node that holds all of them, and report a list of 256
\* or more items as a static error ("Can't have more than 255 parameters."
\* / "Can't have more than 255 arguments.").
C22_Original ==
    pc = "returned" =>
        IF fin.n <= 255
        THEN /\ fout.sig = "ok"
             /\ Len(IF fin.op = "parseFuncStmt" THEN fout.node.params
                                                ELSE fout.node.args) = fin.n
        ELSE /\ fout.sig = "parsingError"
             /\ err = (IF fin.op = "parseFuncStmt"
                       THEN "Can't have more than 255 parameters."
                       ELSE "Can't have more than 255 arguments.")

\* The token lists of the inputs that contain a syntax error.
WithSyntaxError == {Placed(SyntaxErr(j), place) : j \in SyntaxErrs, place \in Places}

\* C23 as stated: for a token list that ends with EOF and contains a syntax
\* error (a missing expression, a missing ';', ')' or '}', an invalid
\* assignment target), Parse returns to its caller and the error it returns
\* is not nil; no panic escapes.
C23_Original ==
    (fin.op = "Parse" /\ fin.tokens \in WithSyntaxError /\ pc # "call") =>
        pc = "returned" /\ err # ""

(***************************************************************************)
(* ScanString: Scanner.Scan called until EOF or an ILLEGAL token.          *)
(***************************************************************************)
\* Longest source of the exhaustive inputs.
MaxSrc == 2

\* The bytes of the sources: A-Z, a-z, '_', '0', '9', ' ', '\n', ';'.
Letters == (65..90) \cup (97..122)
Bytes == Letters \cup {95, 48, 57, 32, 10, 59}

\* Longer sources:  var Z = 1;   and   aZb   x_1   Zeta   while
Sources ==
    UNION {[1..n -> Bytes] : n \in 0..MaxSrc}
    \cup { <<118, 97, 114, 32, 90, 32, 61, 32, 49, 59>>, <<97, 90, 98>>,
           <<120, 95, 49>>, <<90, 101, 116, 97>>, <<119, 104, 105, 108, 101>> }

InitScan ==
    /\ fin \in {[op |-> "ScanString", src |-> src] : src \in Sources}
    /\ fout = [op |-> "ScanString", s |-> NewScanner(fin.src), toks |-> <<>>]
    /\ prog = <<>>
    /\ pc = "scan"
    /\ k = 1
    /\ interp = NewInterpreter(<<0>>)
    /\ rslv = NewResolver(interp.locals)
    /\ err = ""

\* string(b) of the bytes of a token: printable ASCII, the grave accent (96)
\* apart, and the line feed.
Ascii ==
    " !\"#$%&'()*+,-./0123456789:;<=>?@ABCDEFGHIJKLMNOPQRSTUVWXYZ[\\]^_ abcdefghijklmnopqrstuvwxyz{|}~"
RECURSIVE String(_)
String(bytes) ==
    IF bytes = <<>> THEN ""
    ELSE (CASE Head(bytes) \in (32..126) \ {96} -> SubSeq(Ascii, Head(bytes) - 31, Head(bytes) - 31)
            [] Head(bytes) = 10 -> "\n") \o String(Tail(bytes))

\* %+v of a Token: the fields in the order of the struct, Kind by
\* TokenType.String.
FormatToken(tok) ==
    "{Kind:" \o tok.Kind \o " Literal:" \o String(tok.Literal)
    \o " Line:" \o ToString(tok.Line) \o "}"

\* One turn of the loop of ScanString; it returns nil and an error on an
\* ILLEGAL token, the tokens before EOF otherwise.
ScanEnds(r) ==
    CASE r.tok.Kind = "ILLEGAL" ->
            /\ fout' = [fout EXCEPT !.s = r.s, !.toks = <<>>]
            /\ err' = "ILLEGAL token encountered: " \o FormatToken(r.tok)
            /\ pc' = "returned"
      [] r.tok.Kind = "EOF" ->
            /\ fout' = [fout EXCEPT !.s = r.s]
            /\ pc' = "returned"
            /\ UNCHANGED err
      [] OTHER ->
            /\ fout' = [fout EXCEPT !.s = r.s, !.toks = Append(@, r.tok)]
            /\ UNCHANGED <<pc, err>>

ScanNext ==
    /\ pc = "scan"
    /\ fin.op = "ScanString"
    /\ ScanEnds(Scan(fout.s))
    /\ UNCHANGED <<prog, k, rslv, interp, fin>>

NextScan == ScanNext

SpecScan == InitScan /\ [][NextScan]_vars

\* [A-Za-z_][A-Za-z0-9_]*
IdentifierText(src) ==
    /\ src # <<>>
    /\ src[1] \in Letters \cup {95}
    /\ \A j \in 2..Len(src) : src[j] \in Letters \cup {95} \cup (48..57)

\* C24 as stated: a source that is one sequence [A-Za-z_][A-Za-z0-9_]*, of
\* any ASCII letters of both cases, is scanned as exactly one token whose
\* text is the whole sequence, of the keyword kind when the text is a
\* reserved word and of kind IDENTIFIER otherwise; no ILLEGAL token is met.
C24_Original ==
    (pc = "returned" /\ IdentifierText(fin.src)) =>
        /\ err = ""
        /\ Len(fout.toks) = 1
        /\ fout.toks[1].Literal = fin.src
        /\ fout.toks[1].Kind = (IF fin.src \in DOMAIN keywords THEN keywords[fin.src]
                                                               ELSE "IDENTIFIER")

(***************************************************************************)
(* The first loop of Interpret alone: Resolver.resolve on every statement  *)
(* of a program, on programs that put one probed statement (a return,      *)
(* this, super) inside a path of enclosing constructs, directly or after a *)
(* sibling construct that was resolved before it.                          *)
(***************************************************************************)
Constructs == {"block", "func", "method", "init", "submethod", "subinit"}
Probes == {"return", "return value", "this", "super"}
\* The probed this or super expression is the node 900.

\* The statements stmts enclosed by one construct; level numbers the
\* superclass variable of a subclass.
Enclose(c, level, stmts) ==
    CASE c = "block" -> << BlockStmt(stmts) >>
      [] c = "func" -> << parseFuncStmt("f", <<>>, stmts) >>
      [] c = "method" -> << ClassStmt("K", NoNode, << parseFuncStmt("m", <<>>, stmts) >>) >>
      [] c = "init" -> << ClassStmt("K", NoNode, << parseFuncStmt("init", <<>>, stmts) >>) >>
      [] c = "submethod" ->
            << ClassStmt("K", V(800 + level, "Base"), << parseFuncStmt("m", <<>>, stmts) >>) >>
      [] c = "subinit" ->
            << ClassStmt("K", V(800 + level, "Base"),
                         << parseFuncStmt("init", <<>>, stmts) >>) >>

RECURSIVE Nest(_, _, _)
Nest(path, j, stmts) ==
    IF j > Len(path) THEN stmts ELSE Enclose(path[j], j, Nest(path, j + 1, stmts))

Probe(p) ==
    CASE p = "return" -> ReturnStmt(NoNode)
      [] p = "return value" -> ReturnStmt(N(1))
      [] p = "this" -> PrintStmt(ThisExpr(900))
      [] p = "super" -> PrintStmt(GetExpr(SuperExpr(900, "m"), "x"))

\* sibling is "none" or a construct with an empty body declared just
\* before the probe.
Probed(path, sibling, p) ==
    Nest(path, 1, (IF sibling = "none" THEN <<>> ELSE Enclose(sibling, 0, <<>>))
                  \o << Probe(p) >>)

Paths == UNION {[1..n -> Constructs] : n \in 0..MaxNest}

InitResolve ==
    /\ fin \in {[op |-> "resolve", path |-> path, sibling |-> s, probe |-> p] :
                    path \in Paths, s \in Constructs \cup {"none"}, p \in Probes}
    /\ fout = NoIO
    /\ prog = Probed(fin.path, fin.sibling, fin.probe)
    /\ pc = "call"
    /\ k = 1
    /\ interp = NewInterpreter(<<0>>)
    /\ rslv = NewResolver(interp.locals)
    /\ err = ""

\* for _, s := range stmts { r.resolve(s) }, recovered by Interpret
CallResolve ==
    /\ pc = "call"
    /\ fin.op = "resolve"
    /\ rslv' = resolveAll(rslv, prog, 1)
    /\ err' = rslv'.err
    /\ interp' = [interp EXCEPT !.locals = rslv'.locals]
    /\ fout' = [op |-> "resolve"]
    /\ pc' = "returned"
    /\ UNCHANGED <<prog, k, fin>>

NextResolve == CallResolve

SpecResolve == InitResolve /\ [][NextResolve]_vars

\* The kind of the innermost function and of the innermost class of a path.
RECURSIVE FuncKind(_, _), ClassKind(_, _), ScopesInside(_, _)
FuncKind(path, j) ==
    IF j = 0 THEN "funcNone"
    ELSE CASE path[j] = "func" -> "funcFunc"
           [] path[j] \in {"method", "submethod"} -> "funcMethod"
           [] path[j] \in {"init", "subinit"} -> "funcInit"
           [] OTHER -> FuncKind(path, j - 1)
ClassKind(path, j) ==
    IF j = 0 THEN "classNone"
    ELSE CASE path[j] \in {"method", "init"} -> "classClass"
           [] path[j] \in {"submethod", "subinit"} -> "classSub"
           [] OTHER -> ClassKind(path, j - 1)

\* The scopes between the probe and the scope of this of the innermost
\* class: two for every function (its own and the block of its body), one
\* for a block.
ScopesInside(path, j) ==
    IF j = 0 THEN 0
    ELSE CASE path[j] = "block" -> 1 + ScopesInside(path, j - 1)
           [] path[j] = "func" -> 2 + ScopesInside(path, j - 1)
           [] OTHER -> 2

\* C25: the resolver judges a return by the kind of the innermost function
\* around it, also after a sibling function or class was resolved and left:
\* outside every function it is "Can't return from top-level code"; with a
\* value directly in an init method it is "Cannot return a value from
\* initializer."; every other return (a bare one in init, one with a value
\* in a function nested in init) is accepted.
C25_ReturnByInnermostFunction ==
    (pc = "returned" /\ fin.probe \in {"return", "return value"}) =>
        LET kind == FuncKind(fin.path, Len(fin.path))
        IN /\ rslv.currentFunc = "funcNone"
           /\ err = (CASE kind = "funcNone" -> "Can't return from top-level code"
                       [] kind = "funcInit" /\ fin.probe = "return value" ->
                             "Cannot return a value from initializer."
                       [] OTHER -> "")

\* A return with a value rejected directly in an init method, after a
\* function nested in that init was declared and left.
C25_Witness ==
    /\ pc = "returned"
    /\ fin.path = <<"init">>
    /\ fin.sibling = "func"
    /\ fin.probe = "return value"
    /\ err = "Cannot return a value from initializer."

\* C26: the resolver judges this and super by the kind of the innermost
\* class around them, also after a sibling class was resolved and left:
\* outside every class they are "Can't use this outside a class." and
\* "Can't use 'super' outside of class."; super in a class without a
\* superclass is "Can't use 'super' in a class with no superclass."; in
\* every other place the node gets its distance to the scope of this (of
\* super: one more) recorded.
C26_ThisSuperByInnermostClass ==
    (pc = "returned" /\ fin.probe \in {"this", "super"}) =>
        LET kind == ClassKind(fin.path, Len(fin.path))
            hops == ScopesInside(fin.path, Len(fin.path))
        IN /\ rslv.currentClass = "classNone"
           /\ CASE kind = "classNone" ->
                     /\ err = (IF fin.probe = "this" THEN "Can't use this outside a class."
                                                     ELSE "Can't use 'super' outside of class.")
                     /\ 900 \notin DOMAIN rslv.locals
                [] kind = "classClass" /\ fin.probe = "super" ->
                     /\ err = "Can't use 'super' in a class with no superclass."
                     /\ 900 \notin DOMAIN rslv.locals
                [] OTHER ->
                     /\ err = ""
                     /\ 900 \in DOMAIN rslv.locals
                     /\ rslv.locals[900] = (IF fin.probe = "this" THEN hops
                                                                       ELSE hops + 1)

\* super rejected in a class without superclass that is nested in a method
\* of a subclass, after a further subclass was declared and left.
C26_Witness ==
    /\ pc = "returned"
    /\ fin.path = <<"submethod", "method">>
    /\ fin.sibling = "subinit"
    /\ fin.probe = "super"
    /\ err = "Can't use 'super' in a class with no superclass."

\* The evaluations of Variable, Assign and ThisExpr nodes that are in locals.
LocalUses == {j \in Events("lookup") : T[j].local}

\* C27 as stated: whenever a Variable, Assign or ThisExpr node with a
\* recorded distance d is evaluated, the Env d hops up from the current one
\* exists and its own map holds the name, so the read or the assignment
\* succeeds there: no resolved read is undefined and Env.assign does not go
\* on to an enclosing Env.
C27_Original ==
    \A j \in LocalUses : T[j].env >= 1 /\ T[j].own /\ T[j].sig = "ok"

\* The evaluations of the node a of showA (a read) and of setA (an
\* assignment).
ShowReads == {j \in Events("lookup") : T[j].id = 751}
SetWrites == {j \in Events("lookup") : T[j].id = 752}

\* C28: in { fun showA() { print a; } fun setA() { a = "set"; } showA();
\* var a = "block"; showA(); setA(); print a; showA(); } with an outer a,
\* global or local to an enclosing block, every call of showA reads the
\* outer a and setA assigns the outer a, before and after the block
\* declares its own a: all evaluations of the node reach one and the same
\* Env, which is not the Env of the block, and the program prints outer,
\* outer, block, set, set.  In every program a node is either always looked
\* up by its recorded distance or always in the global Env.
C28_StaticScope ==
    /\ \A j1 \in Events("lookup"), j2 \in Events("lookup") :
          T[j1].id = T[j2].id =>
              /\ T[j1].local = T[j2].local
              /\ ~T[j1].local => T[j1].env = interp.global
    /\ \A g \in BOOLEAN, d \in 0..MaxNest :
        prog = ShowProg(g, d) =>
            /\ \A j \in ShowReads \cup SetWrites :
                  /\ T[j].sig = "ok" /\ T[j].own
                  /\ T[j].env = (IF g THEN interp.global ELSE d + 2)
                  /\ T[j].local = ~g
            /\ \A j \in ShowReads : T[j].val \in {Str("\"outer\""), Str("\"set\"")}
            /\ pc = "done" =>
                  /\ err = ""
                  /\ interp.out = <<"\"outer\"", "\"outer\"", "\"block\"", "\"set\"",
                                    "\"set\"">>
                  /\ Cardinality(ShowReads) = 3

\* A finished run with the outer a local to a block: showA was called
\* before and after the inner block declared its own a, and both calls read
\* "outer" from the Env of the outer block.
C28_Witness ==
    /\ pc = "done"
    /\ prog = ShowProg(FALSE, 1)
    /\ \E j1 \in ShowReads, j2 \in ShowReads :
          /\ j1 < j2
          /\ T[j1].val = Str("\"outer\"") /\ T[j2].val = Str("\"outer\"")
          /\ T[j1].env = T[j2].env
          /\ T[j1].before # T[j2].before
          /\ \E v \in Events("stmt") : j1 < v /\ v < j2 /\ T[v].kind = "VarStmt"

\* The identities of the expression nodes of a statement or expression, one
\* entry per position of the tree, in the order the resolver visits them.
RECURSIVE NodeIds(_), NodeIdsIn(_, _)
NodeIds(node) ==
    CASE node.kind \in {"Variable", "ThisExpr", "SuperExpr"} -> <<node.id>>
      [] node.kind = "Assign" -> NodeIds(node.val) \o <<node.id>>
      [] node.kind = "Grouping" -> NodeIds(node.group)
      [] node.kind \in {"BinaryExpr", "LogicalExpr"} ->
            NodeIds(node.left) \o NodeIds(node.right)
      [] node.kind = "UnaryExpr" -> NodeIds(node.right)
      [] node.kind = "Call" -> NodeIds(node.callee) \o NodeIdsIn(node.args, 1)
      [] node.kind = "GetExpr" -> NodeIds(node.object)
      [] node.kind = "SetExpr" -> NodeIds(node.value) \o NodeIds(node.object)
      [] node.kind \in {"PrintStmt", "ExprStmt"} -> NodeIds(node.expr)
      [] node.kind = "VarStmt" -> NodeIds(node.init)
      [] node.kind = "BlockStmt" -> NodeIdsIn(node.statements, 1)
      [] node.kind = "IfStmt" ->
            NodeIds(node.cond) \o NodeIds(node.thenBranch) \o NodeIds(node.elseBranch)
      [] node.kind = "WhileStmt" -> NodeIds(node.cond) \o NodeIds(node.body)
      [] node.kind = "ReturnStmt" -> NodeIds(node.value)
      [] node.kind = "ClassStmt" -> NodeIds(node.super) \o NodeIdsIn(node.methods, 1)
      [] node.kind = "FuncStmt" -> NodeIdsIn(node.body, 1)
      [] OTHER -> <<>>
NodeIdsIn(nodes, j) ==
    IF j > Len(nodes) THEN <<>> ELSE NodeIds(nodes[j]) \o NodeIdsIn(nodes, j + 1)

\* No entry of the sequence occurs twice.
Distinct(seq) == \A a \in DOMAIN seq, b \in DOMAIN seq : a # b => seq[a] # seq[b]

\* C29 as stated: every expression node of the program is at exactly one
\* position of the AST, resolveLocal is called at most once for a node, and
\* no two calls for one node are made with different scope depths or give
\* different distances.
C29_Original ==
    /\ Distinct(NodeIdsIn(prog, 1))
    /\ \A a \in DOMAIN rslv.visits, b \in DOMAIN rslv.visits :
          (a # b /\ rslv.visits[a].id = rslv.visits[b].id) =>
              /\ FALSE
              /\ rslv.visits[a].depth = rslv.visits[b].depth
              /\ rslv.visits[a].distance = rslv.visits[b].distance

\* The Envs of the heap that bind every name of the set.
Binding(names) == {e \in DOMAIN interp.envs : names \subseteq DOMAIN interp.envs[e].vars}

\* C30 as stated: parameters and the top-level statements of a function body
\* share one scope and one Env: fun f(a) { var a ...; } is rejected with
\* "Already a variable with this name in this scope", and a call of
\* fun f(a) { var b = 1; print a + b; } creates one Env, a child of the
\* closure, that binds both a and b.
C30_Original ==
    /\ \A j \in {1, 3} :
          (prog = ParamProg(j) /\ pc = "done") =>
              /\ err = "RUNTIME ERROR: Already a variable with this name in this scope"
              /\ interp.out = <<>>
    /\ (prog = ParamProg(2) /\ pc = "done") =>
          /\ err = ""
          /\ interp.out = <<"3">>
          /\ Len(interp.envs) = 2
          /\ \E e \in Binding({"a", "b"}) : interp.envs[e].enclosing = interp.global
====
